---- MODULE Spec2Model ----
(***************************************************************************)
(* A model of the data-collection scripts of the repository:               *)
(*   Kalshi/get_NBA_markets.py    paginated fetch of a series' markets     *)
(*   Kalshi/get_NBA_prices.py     candlestick lookup before game start     *)
(*   OddsAPI/get_sportsbook_odds.py  team resolution and odds lookup       *)
(*   OddsAPI/odds_client.py       the odds provider's client               *)
(*   OddsAPI/test_sportsbook_odds.py  the trial copy of the odds lookup    *)
(* Each script is a program of its own; prog says which one a behaviour    *)
(* runs.  A Python str is a sequence of one-character strings, None is the *)
(* value None, a missing dict key is the value Absent.                     *)
(***************************************************************************)
EXTENDS Integers, Sequences, FiniteSets, TLC

VARIABLES
    prog,            \* the script run: "fetch", "price", "odds", "odds_test"
    pc,              \* its position: "run", "done" (returned) or "raised"
    all_markets,     \* get_all_markets_for_series: the accumulated markets
    cursor,          \* get_all_markets_for_series: the cursor variable
    page,            \* get_all_markets_for_series: the page counter
    requests,        \* the page requests sent so far (their cursor parameter)
    responses,       \* the provider's answers to them, in order
    price_call,      \* get_price_before_game_start: arguments, request, answer
    price_data,      \* get_price_before_game_start: the value returned
    closing_lines,   \* collect_sportsbook_odds_for_games: the input records
    processed,       \* collect_sportsbook_odds_for_games: counters
    successful,
    failed,
    sportsbook_odds, \* collect_sportsbook_odds_for_games: the output payload
    resolved,        \* the resolver's result for the record just processed
    lookup,          \* the odds lookup made for the record just processed
    series_markets,  \* collect_closing_lines_for_all_games: the input markets
    skipped,         \* collect_closing_lines_for_all_games: counter
    output_data,     \* the envelope a collect function writes at its end
    match_call,      \* find_game_by_teams: arguments and result of a call
    now,             \* LiveOddsCollector: the clock, in minutes
    collected_games, \* LiveOddsCollector: the keys of the games scheduled
    jobs,            \* the jobs registered with the schedule module
    executions,      \* the runs of collect_job so far: key and time
    errors,          \* run_scheduler: the cycles ended by an exception
    local_offset,    \* minutes the clock of the host is ahead of UTC
    upcoming_call,   \* get_upcoming_games: arguments and result of a call
    nba_series,      \* fetch_nba_series_markets: the series of the input file
    series_answers,  \* the provider's pages for each series fetched, in order
    all_series_markets, \* fetch_nba_series_markets: the markets by series
    total_markets,   \* fetch_nba_series_markets: the running total
    run,             \* the run of the fetcher under way: first or second
    first_output,    \* the envelope the first run of the fetcher wrote
    master_file      \* the master file of _append_to_master_file

vars == <<prog, pc, all_markets, cursor, page, requests, responses,
          price_call, price_data, closing_lines, processed, successful,
          failed, sportsbook_odds, resolved, lookup, series_markets, skipped,
          output_data, match_call, now, collected_games, jobs, executions,
          errors, local_offset, upcoming_call, nba_series, series_answers,
          all_series_markets, total_markets, run, first_output, master_file>>

fetchVars == <<all_markets, cursor, page, requests, responses>>
priceVars == <<price_call, price_data>>
oddsVars  == <<closing_lines, processed, successful, failed, sportsbook_odds,
               resolved, lookup>>
loopVars  == <<series_markets, skipped>>
matchVars == <<match_call>>
callVars  == <<upcoming_call>>
seriesVars == <<nba_series, series_answers, all_series_markets, total_markets,
                run, first_output>>
masterVars == <<master_file>>
liveVars  == <<now, collected_games, jobs, executions, errors, local_offset>>

\* A str or a list is a sequence, so the None and the missing key that may
\* stand in its place are sequences no str equals; a dict is a record, and
\* the None that may stand in its place is the record NoDict.
None   == <<"None">>
Absent == <<"Absent">>
NoDict == [none |-> TRUE]
Idle   == [state |-> "idle"]

\* the variables of the programs that do not run keep these values
LoopIdle  == series_markets = << >> /\ skipped = 0
MatchIdle == match_call = Idle
CallIdle  == upcoming_call = Idle
SeriesIdle ==
    /\ nba_series = << >>
    /\ series_answers = << >>
    /\ all_series_markets = << >>
    /\ total_markets = 0
    /\ run = 0
    /\ first_output = NoDict
MasterIdle == master_file = [exists |-> FALSE]
LiveIdle ==
    /\ now = 0
    /\ collected_games = {}
    /\ jobs = << >>
    /\ executions = {}
    /\ errors = 0
    /\ local_offset = 0

(***************************************************************************)
(* Bounds of the model.                                                    *)
(***************************************************************************)
MaxPages   == 3   \* page requests one series fetch may make
MaxPageLen == 1   \* markets on one page
MaxSamples == 2   \* candlestick samples in one answer
MaxGames   == 2   \* records of a closing-lines file built from the catalog

(***************************************************************************)
(* Python str operations on sequences of characters.                       *)
(***************************************************************************)
RECURSIVE Concat(_)
Concat(ss) == IF ss = << >> THEN << >> ELSE Head(ss) \o Concat(Tail(ss))

\* sep occurs in s at position i
OccursAt(s, sep, i) ==
    /\ i >= 1
    /\ i + Len(sep) - 1 <= Len(s)
    /\ SubSeq(s, i, i + Len(sep) - 1) = sep

\* sep in s
Contains(s, sep) == \E i \in 1..(Len(s) + 1) : OccursAt(s, sep, i)

\* s.find(sep): the first position of sep in s, 0 when there is none
Find(s, sep) ==
    IF Contains(s, sep)
    THEN CHOOSE i \in 1..(Len(s) + 1) :
            /\ OccursAt(s, sep, i)
            /\ \A j \in 1..(i - 1) : ~OccursAt(s, sep, j)
    ELSE 0

\* s.split(sep) for a non-empty sep: cut at each occurrence, left to right
RECURSIVE Split(_, _)
Split(s, sep) ==
    LET i == Find(s, sep)
    IN  IF i = 0
        THEN <<s>>
        ELSE <<SubSeq(s, 1, i - 1)>>
             \o Split(SubSeq(s, i + Len(sep), Len(s)), sep)

\* s.strip(): the blanks at both ends removed
RECURSIVE LStrip(_)
LStrip(s) == IF s # << >> /\ Head(s) = " " THEN LStrip(Tail(s)) ELSE s

RECURSIVE RStrip(_)
RStrip(s) ==
    IF s # << >> /\ s[Len(s)] = " " THEN RStrip(SubSeq(s, 1, Len(s) - 1)) ELSE s

Strip(s) == RStrip(LStrip(s))

\* s[n:]
DropFirst(s, n) == IF n >= Len(s) THEN << >> ELSE SubSeq(s, n + 1, Len(s))

\* all sequences over S of length at most n
SeqsUpTo(S, n) == UNION {[1..k -> S] : k \in 0..n}

(***************************************************************************)
(* get_NBA_markets.py: get_all_markets_for_series.                         *)
(***************************************************************************)
MarketIds == {"m1", "m2"}
Cursors   == {<<"c", "1">>, <<"c", "2">>}

\* What the provider may answer to one page request: a transport or HTTP
\* error, or a JSON object whose 'markets' and 'cursor' keys may be missing
\* and whose cursor may be the empty string.
PageResponses ==
    {[kind |-> "error"]}
    \cup [kind : {"ok"},
          markets : {Absent} \cup SeqsUpTo(MarketIds, MaxPageLen),
          cursor : {Absent, << >>} \cup Cursors]

\* Python truth of a cursor value
Truthy(c) == c \notin {None, << >>}

\* params["cursor"] is set only for a truthy cursor
CursorParam(c) == IF Truthy(c) THEN c ELSE Absent

\* data.get('markets', [])
MarketsOf(resp) == IF resp.markets = Absent THEN << >> ELSE resp.markets

\* data.get('cursor')
CursorOf(resp) == IF resp.cursor = Absent THEN None ELSE resp.cursor

\* A mutant of PageStep: the cursor of the answer is never stored.
PageStepStaleCursor(am, cur, pg, resp) ==
    IF resp.kind = "error"
    THEN [all_markets |-> am, cursor |-> cur, page |-> pg, pc |-> "done"]
    ELSE [all_markets |-> am \o MarketsOf(resp),
          cursor |-> cur,
          page |-> IF Truthy(CursorOf(resp)) THEN pg + 1 ELSE pg,
          pc |-> IF Truthy(CursorOf(resp)) THEN "run" ELSE "done"]

\* A mutant of PageStep: a failed page is tried again.
PageStepRetry(am, cur, pg, resp) ==
    IF resp.kind = "error"
    THEN [all_markets |-> am, cursor |-> cur, page |-> pg, pc |-> "run"]
    ELSE [all_markets |-> am \o MarketsOf(resp),
          cursor |-> CursorOf(resp),
          page |-> IF Truthy(CursorOf(resp)) THEN pg + 1 ELSE pg,
          pc |-> IF Truthy(CursorOf(resp)) THEN "run" ELSE "done"]

\* One pass of the while loop after the answer resp has arrived: the locals
\* and whether the loop goes on ("run") or the function returns ("done").
PageStep(am, cur, pg, resp) ==
    IF resp.kind = "error"
    THEN \* raise_for_status or the transport raised: except ... break
         [all_markets |-> am, cursor |-> cur, page |-> pg, pc |-> "done"]
    ELSE [all_markets |-> am \o MarketsOf(resp),
          cursor |-> CursorOf(resp),
          page |-> IF Truthy(CursorOf(resp)) THEN pg + 1 ELSE pg,
          pc |-> IF Truthy(CursorOf(resp)) THEN "run" ELSE "done"]

InitFetch ==
    /\ prog = "fetch"
    /\ pc = "run"
    /\ all_markets = << >>
    /\ cursor = None
    /\ page = 1
    /\ requests = << >>
    /\ responses = << >>
    /\ price_call = Idle
    /\ price_data = Idle
    /\ closing_lines = << >>
    /\ processed = 0
    /\ successful = 0
    /\ failed = 0
    /\ sportsbook_odds = << >>
    /\ resolved = Idle
    /\ lookup = Idle
    /\ output_data = NoDict
    /\ LoopIdle /\ MatchIdle /\ LiveIdle /\ CallIdle /\ SeriesIdle /\ MasterIdle

\* One pass of the while loop: the request is sent and its answer handled.
FetchPage ==
    /\ prog = "fetch"
    /\ pc = "run"
    /\ page <= MaxPages
    /\ \E resp \in PageResponses :
          LET st == PageStep(all_markets, cursor, page, resp)
          IN  /\ requests' = Append(requests, [cursor |-> CursorParam(cursor)])
              /\ responses' = Append(responses, resp)
              /\ all_markets' = st.all_markets
              /\ cursor' = st.cursor
              /\ page' = st.page
              /\ pc' = st.pc
    /\ UNCHANGED <<prog, priceVars, oddsVars, output_data>>
    /\ UNCHANGED <<loopVars, matchVars, liveVars, callVars, seriesVars, masterVars>>

NextFetch == FetchPage

SpecFetch == InitFetch /\ [][NextFetch]_vars

\* the markets of the pages answered without error, in page order
RECURSIVE PagesMarkets(_)
PagesMarkets(rs) ==
    IF rs = << >>
    THEN << >>
    ELSE (IF Head(rs).kind = "ok" THEN MarketsOf(Head(rs)) ELSE << >>)
         \o PagesMarkets(Tail(rs))

EmptyCursor(resp) == resp.kind = "ok" /\ resp.cursor \in {Absent, << >>}

\* C1: the first page request carries no cursor, every later one carries
\* exactly the cursor the preceding page returned, no request follows a
\* page whose cursor is absent or empty, and the value returned is the
\* markets of all fetched pages concatenated in page order.
C1_CursorPagination ==
    prog = "fetch" =>
        /\ Len(requests) = Len(responses)
        /\ \A k \in 1..Len(requests) :
              /\ k = 1 => requests[k].cursor = Absent
              /\ k > 1 => /\ responses[k - 1].kind = "ok"
                          /\ ~EmptyCursor(responses[k - 1])
                          /\ requests[k].cursor = responses[k - 1].cursor
        /\ \A k \in 1..Len(responses) :
              EmptyCursor(responses[k]) => k = Len(requests) /\ pc = "done"
        /\ pc = "done" => all_markets = PagesMarkets(responses)

\* three pages fetched, the last one without a cursor, markets on each
C1_Witness ==
    /\ prog = "fetch"
    /\ pc = "done"
    /\ Len(responses) = 3
    /\ EmptyCursor(responses[3])
    /\ \A k \in 1..3 : MarketsOf(responses[k]) # << >>
    /\ Len(all_markets) = 3

\* C2: when the request for page k fails, no further request is made, the
\* function returns (it does not raise) and the value returned is the
\* markets of pages 1..k-1.
C2_FailedPageStops ==
    prog = "fetch" =>
        \A k \in 1..Len(responses) :
            responses[k].kind = "error" =>
                /\ k = Len(requests)
                /\ pc = "done"
                /\ all_markets = PagesMarkets(SubSeq(responses, 1, k - 1))

\* the third page fails after two pages that carried markets
C2_Witness ==
    /\ prog = "fetch"
    /\ Len(responses) = 3
    /\ responses[3].kind = "error"
    /\ pc = "done"
    /\ Len(all_markets) = 2

(***************************************************************************)
(* Calendar arithmetic of datetime and timedelta (proleptic Gregorian).    *)
(***************************************************************************)
\* The operators below hand each intermediate value on as an argument.
\* days from 1970-01-01 to day d of month m of the year that starts in
\* March of year yy
DaysFromMarchYear(yy, m, d) ==
    (yy \div 400) * 146097
    + (yy % 400) * 365 + (yy % 400) \div 4 - (yy % 400) \div 100
    + (153 * ((m + 9) % 12) + 2) \div 5 + d - 1
    - 719468

\* days from 1970-01-01 to the civil date y-m-d
DaysFromCivil(y, m, d) == DaysFromMarchYear(IF m <= 2 THEN y - 1 ELSE y, m, d)

CivilOfMonth(y, d, m) ==
    [year |-> IF m <= 2 THEN y + 1 ELSE y, month |-> m, day |-> d]

CivilOfDayOfYear(y, doy, mp) ==
    CivilOfMonth(y, doy - (153 * mp + 2) \div 5 + 1,
                 IF mp < 10 THEN mp + 3 ELSE mp - 9)

CivilOfYearOfEra(era, doe, yoe) ==
    CivilOfDayOfYear(yoe + era * 400,
                     doe - (365 * yoe + yoe \div 4 - yoe \div 100),
                     (5 * (doe - (365 * yoe + yoe \div 4 - yoe \div 100)) + 2)
                         \div 153)

CivilOfDayOfEra(era, doe) ==
    CivilOfYearOfEra(era, doe,
        (doe - doe \div 1460 + doe \div 36524 - doe \div 146096) \div 365)

\* the civil date z days after 1970-01-01
CivilFromDays(z) ==
    CivilOfDayOfEra((z + 719468) \div 146097, (z + 719468) % 146097)

IsLeap(y) == (y % 4 = 0 /\ y % 100 # 0) \/ y % 400 = 0

DaysInMonth(y, m) ==
    IF m = 2 THEN (IF IsLeap(y) THEN 29 ELSE 28)
    ELSE IF m \in {4, 6, 9, 11} THEN 30 ELSE 31

\* An aware datetime: the wall clock fields and the UTC offset in minutes.
\* Seconds of its wall clock since 1970-01-01T00:00:00.
WallSeconds(dt) ==
    DaysFromCivil(dt.year, dt.month, dt.day) * 86400
    + dt.hour * 3600 + dt.minute * 60 + dt.second

\* dt.timestamp() of an aware datetime
Timestamp(dt) == WallSeconds(dt) - dt.offset * 60

\* the datetime of civil date c, sec seconds into the day, at offset off
WithClock(c, sec, off) ==
    [year |-> c.year, month |-> c.month, day |-> c.day,
     hour |-> sec \div 3600, minute |-> (sec % 3600) \div 60,
     second |-> sec % 60, offset |-> off]

\* the datetime whose wall clock is w seconds since 1970-01-01T00:00:00
FromWallSeconds(w, off) == WithClock(CivilFromDays(w \div 86400), w % 86400, off)

\* dt - timedelta(seconds = n): the wall clock moves, the offset stays
MinusSeconds(dt, n) == FromWallSeconds(WallSeconds(dt) - n, dt.offset)

(***************************************************************************)
(* ISO-8601 text: datetime.fromisoformat and datetime.isoformat.           *)
(***************************************************************************)
Digits == <<"0", "1", "2", "3", "4", "5", "6", "7", "8", "9">>

IsDigit(c) == \E d \in 1..10 : Digits[d] = c

DigitOf(c) == (CHOOSE d \in 1..10 : Digits[d] = c) - 1

AllDigits(s) == \A i \in 1..Len(s) : IsDigit(s[i])

\* int(s) of a string of digits
Num(s) ==
    LET f[i \in 0..Len(s)] == IF i = 0 THEN 0 ELSE f[i - 1] * 10 + DigitOf(s[i])
    IN  f[Len(s)]

\* n written with w digits, zero padded
Pad(n, w) ==
    LET f[i \in 0..w] ==
            IF i = 0 THEN [q |-> n, out |-> << >>]
            ELSE [q |-> f[i - 1].q \div 10,
                  out |-> <<Digits[(f[i - 1].q % 10) + 1]>> \o f[i - 1].out]
    IN  f[w].out

\* s.replace('Z', '+00:00')
ReplaceZ(s) ==
    LET f[i \in 0..Len(s)] ==
            IF i = 0 THEN << >>
            ELSE f[i - 1] \o (IF s[i] = "Z"
                              THEN <<"+", "0", "0", ":", "0", "0">>
                              ELSE <<s[i]>>)
    IN  f[Len(s)]

\* The text has the shape YYYY-MM-DDTHH:MM:SS+HH:MM (or -HH:MM) and its
\* fields are in range; fromisoformat raises ValueError otherwise.  Texts
\* without an offset (naive datetimes) are not among the inputs.
IsoWellFormed(s) ==
    /\ Len(s) = 25
    /\ AllDigits(SubSeq(s, 1, 4)) /\ s[5] = "-"
    /\ AllDigits(SubSeq(s, 6, 7)) /\ s[8] = "-"
    /\ AllDigits(SubSeq(s, 9, 10)) /\ s[11] = "T"
    /\ AllDigits(SubSeq(s, 12, 13)) /\ s[14] = ":"
    /\ AllDigits(SubSeq(s, 15, 16)) /\ s[17] = ":"
    /\ AllDigits(SubSeq(s, 18, 19)) /\ s[20] \in {"+", "-"}
    /\ AllDigits(SubSeq(s, 21, 22)) /\ s[23] = ":"
    /\ AllDigits(SubSeq(s, 24, 25))
    /\ Num(SubSeq(s, 1, 4)) >= 1
    /\ Num(SubSeq(s, 6, 7)) \in 1..12
    /\ Num(SubSeq(s, 9, 10)) \in
          1..DaysInMonth(Num(SubSeq(s, 1, 4)), Num(SubSeq(s, 6, 7)))
    /\ Num(SubSeq(s, 12, 13)) \in 0..23
    /\ Num(SubSeq(s, 15, 16)) \in 0..59
    /\ Num(SubSeq(s, 18, 19)) \in 0..59
    /\ Num(SubSeq(s, 21, 22)) \in 0..23
    /\ Num(SubSeq(s, 24, 25)) \in 0..59

\* datetime.fromisoformat(s) of a well-formed text
FromIsoFormat(s) ==
    [year |-> Num(SubSeq(s, 1, 4)), month |-> Num(SubSeq(s, 6, 7)),
     day |-> Num(SubSeq(s, 9, 10)), hour |-> Num(SubSeq(s, 12, 13)),
     minute |-> Num(SubSeq(s, 15, 16)), second |-> Num(SubSeq(s, 18, 19)),
     offset |-> (IF s[20] = "-" THEN -1 ELSE 1)
                * (Num(SubSeq(s, 21, 22)) * 60 + Num(SubSeq(s, 24, 25)))]

\* dt.isoformat() of an aware datetime without microseconds
IsoFormat(dt) ==
    LET a == IF dt.offset < 0 THEN -dt.offset ELSE dt.offset
    IN  Pad(dt.year, 4) \o <<"-">> \o Pad(dt.month, 2) \o <<"-">>
        \o Pad(dt.day, 2) \o <<"T">> \o Pad(dt.hour, 2) \o <<":">>
        \o Pad(dt.minute, 2) \o <<":">> \o Pad(dt.second, 2)
        \o <<(IF dt.offset < 0 THEN "-" ELSE "+")>>
        \o Pad(a \div 60, 2) \o <<":">> \o Pad(a % 60, 2)

(***************************************************************************)
(* get_NBA_prices.py: get_price_before_game_start.                         *)
(***************************************************************************)
DefaultMinutesBefore == 5    \* minutes_before=5
GameHours   == 2             \* timedelta(hours=2, minutes=30)
GameMinutes == 30
WindowBefore == 300          \* start_ts = target_ts - 300
WindowAfter  == 300          \* end_ts = target_ts + 300
UrlSeries == "KXNBAGAME"     \* the series segment written in the url

\* Identifiers that are never taken apart are written as TLA+ strings.
SeriesTickers == {"KXNBAGAME", "KXNBASERIES"}
MarketTicker  == "KXNBAGAME-25NOV25LACLAL-LAL"

ExampleExpiration == <<"2", "0", "2", "5", "-", "1", "1", "-", "2", "6", "T", "0", "7", ":", "0", "0", ":", "0", "0", "Z">>
ExpirationTimes ==
    { ExampleExpiration,
      <<"2", "0", "2", "5", "-", "0", "3", "-", "0", "1", "T", "0", "1", ":", "0", "0", ":", "0", "0", "Z">>,
      <<"2", "0", "2", "4", "-", "0", "3", "-", "0", "1", "T", "0", "2", ":", "2", "9", ":", "5", "9", "Z">>,
      <<"2", "0", "2", "6", "-", "0", "1", "-", "0", "1", "T", "0", "0", ":", "1", "0", ":", "0", "0", "Z">>,
      <<"2", "0", "2", "5", "-", "1", "1", "-", "2", "6", "T", "0", "2", ":", "0", "0", ":", "0", "0", "-", "0", "5", ":", "0", "0">>,
      <<"T", "B", "D">> }

\* the minutes_before argument: left out, or given
MinutesBeforeArgs == {[given |-> FALSE]} \cup [given : {TRUE}, v : {5, 10}]

MinutesBeforeOf(arg) == IF arg.given THEN arg.v ELSE DefaultMinutesBefore

\* A candlestick sample: its close time and its closing price.  The
\* provider is free in what it returns; the samples tried lie around the
\* target time, inside and outside the window asked for.
SampleOffsets == {-400, -60, 0, 60, 120}
ClosePrices   == {40, 55}
Samples(target_ts) ==
    {[end_period_ts |-> target_ts + d, close |-> c] :
        d \in SampleOffsets, c \in ClosePrices}

\* What the provider may answer: a transport or HTTP error, a JSON object
\* without the 'candlesticks' key ("no_key"), or one with a list of samples.
CandleResponses(target_ts) ==
    {[kind |-> "error"], [kind |-> "no_key"]}
    \cup [kind : {"ok"}, candlesticks : SeqsUpTo(Samples(target_ts), MaxSamples)]

AbsDiff(a, b) == IF a >= b THEN a - b ELSE b - a

\* A mutant of Closest: the farthest sample.
ClosestFarthest(samples, target_ts) ==
    LET d(i) == AbsDiff(samples[i].end_period_ts, target_ts)
    IN  samples[CHOOSE i \in 1..Len(samples) :
                   /\ \A j \in 1..Len(samples) : d(i) >= d(j)
                   /\ \A j \in 1..(i - 1) : d(j) < d(i)]

\* A mutant of Closest: of the closest samples, the one listed last.
ClosestLastListed(samples, target_ts) ==
    LET d(i) == AbsDiff(samples[i].end_period_ts, target_ts)
    IN  samples[CHOOSE i \in 1..Len(samples) :
                   /\ \A j \in 1..Len(samples) : d(i) <= d(j)
                   /\ \A j \in (i + 1)..Len(samples) : d(j) > d(i)]

\* min(samples, key=lambda x: abs(x['end_period_ts'] - target_ts)): min
\* keeps the first of the elements whose key is smallest.
Closest(samples, target_ts) ==
    LET d(i) == AbsDiff(samples[i].end_period_ts, target_ts)
    IN  samples[CHOOSE i \in 1..Len(samples) :
                   /\ \A j \in 1..Len(samples) : d(i) <= d(j)
                   /\ \A j \in 1..(i - 1) : d(j) > d(i)]

\* A mutant of GameStartOf: the game is taken to last two hours.
GameStartOfTwoHours(game_end) == MinusSeconds(game_end, GameHours * 3600)

\* game_start = game_end - timedelta(hours=2, minutes=30)
GameStartOf(game_end) ==
    MinusSeconds(game_end, GameHours * 3600 + GameMinutes * 60)

\* the window asked for
WindowOf(target_ts) ==
    [start_ts |-> target_ts - WindowBefore, end_ts |-> target_ts + WindowAfter]

\* The try statement from the request on: the answer is handled.
PriceWithTarget(market_ticker, game_end, game_start, target_ts, resp) ==
    [request |-> [series |-> UrlSeries, market |-> market_ticker,
                  start_ts |-> WindowOf(target_ts).start_ts,
                  end_ts |-> WindowOf(target_ts).end_ts,
                  period_interval |-> 1],
     resp |-> resp, game_start |-> game_start, target_ts |-> target_ts,
     exc |-> IF resp.kind = "error" THEN "RequestException" ELSE "none",
     ret |-> IF resp.kind = "ok" /\ Len(resp.candlesticks) > 0
             THEN [ticker |-> market_ticker,
                   game_start |-> IsoFormat(game_start),
                   game_end |-> IsoFormat(game_end),
                   price_time_unix |->
                       Closest(resp.candlesticks, target_ts).end_period_ts,
                   close |-> Closest(resp.candlesticks, target_ts).close]
             ELSE NoDict]

\* target_time = game_start - timedelta(minutes=minutes_before)
PriceWithGameStart(market_ticker, game_end, game_start, minutes_before, resp) ==
    PriceWithTarget(market_ticker, game_end, game_start,
                    Timestamp(MinusSeconds(game_start, minutes_before * 60)),
                    resp)

PriceWithGameEnd(market_ticker, game_end, minutes_before, resp) ==
    PriceWithGameStart(market_ticker, game_end, GameStartOf(game_end),
                       minutes_before, resp)

\* The body of the try statement.  exc is the exception it raised ("none"
\* when it returned), ret the value it returned, and the locals and the
\* request made are kept to be looked at.
PriceTry(series_ticker, market_ticker, expiration, minutes_arg, resp) ==
    IF ~IsoWellFormed(ReplaceZ(expiration))
    THEN [exc |-> "ValueError", ret |-> NoDict, request |-> NoDict,
          resp |-> NoDict, game_start |-> NoDict, target_ts |-> 0]
    ELSE PriceWithGameEnd(market_ticker, FromIsoFormat(ReplaceZ(expiration)),
                          MinutesBeforeOf(minutes_arg), resp)

\* A mutant of Caught: only the errors of the requests library are caught.
CaughtRequestsOnly(exc) == exc = "RequestException"

\* except Exception: every exception the body raises is caught
Caught(exc) == exc \in {"ValueError", "RequestException", "TypeError",
                        "AttributeError", "KeyError"}

\* what the function does with the outcome t of its try statement
HandlePrice(t) ==
    [exc |-> t.exc, request |-> t.request, resp |-> t.resp,
     game_start |-> t.game_start, target_ts |-> t.target_ts,
     raised |-> t.exc # "none" /\ ~Caught(t.exc),
     ret |-> IF t.exc = "none" THEN t.ret ELSE NoDict]

\* The function: the try statement and its handler, which returns None.
GetPriceBeforeGameStart(series_ticker, market_ticker, expiration, minutes_arg, resp) ==
    HandlePrice(PriceTry(series_ticker, market_ticker, expiration,
                         minutes_arg, resp))

\* the target time of a call, for choosing what the provider answers
TargetOf(args) ==
    PriceTry(args.series_ticker, args.market_ticker,
             args.expected_expiration_time, args.minutes_before,
             [kind |-> "error"]).target_ts

InitPrice ==
    /\ prog = "price"
    /\ pc = "run"
    /\ \E st \in SeriesTickers, e \in ExpirationTimes, mb \in MinutesBeforeArgs :
          price_call = [state |-> "called",
                        args |-> [series_ticker |-> st,
                                  market_ticker |-> MarketTicker,
                                  expected_expiration_time |-> e,
                                  minutes_before |-> mb]]
    /\ price_data = NoDict
    /\ all_markets = << >>
    /\ cursor = None
    /\ page = 1
    /\ requests = << >>
    /\ responses = << >>
    /\ closing_lines = << >>
    /\ processed = 0
    /\ successful = 0
    /\ failed = 0
    /\ sportsbook_odds = << >>
    /\ resolved = Idle
    /\ lookup = Idle
    /\ output_data = NoDict
    /\ LoopIdle /\ MatchIdle /\ LiveIdle /\ CallIdle /\ SeriesIdle /\ MasterIdle

\* The call of get_price_before_game_start, from entry to return.
GetPrice ==
    /\ prog = "price"
    /\ pc = "run"
    /\ price_call.state = "called"
    /\ \E resp \in CandleResponses(TargetOf(price_call.args)) :
          LET r == GetPriceBeforeGameStart(
                       price_call.args.series_ticker,
                       price_call.args.market_ticker,
                       price_call.args.expected_expiration_time,
                       price_call.args.minutes_before, resp)
          IN  /\ price_call' = [state |-> "returned", args |-> price_call.args,
                                out |-> r]
              /\ price_data' = r.ret
              /\ pc' = IF r.raised THEN "raised" ELSE "done"
    /\ UNCHANGED <<prog, fetchVars, oddsVars, output_data>>
    /\ UNCHANGED <<loopVars, matchVars, liveVars, callVars, seriesVars, masterVars>>

NextPrice == GetPrice

SpecPrice == InitPrice /\ [][NextPrice]_vars

\* the call has returned and its expiration argument was a timestamp
PriceCallMade ==
    /\ prog = "price"
    /\ price_call.state = "returned"
    /\ price_call.out.exc # "ValueError"

\* the instant of the expiration argument, in Unix seconds
ExpirationInstant ==
    Timestamp(FromIsoFormat(ReplaceZ(price_call.args.expected_expiration_time)))

\* the fields of dt are those of a date and a time of day
ValidDateTime(dt) ==
    /\ dt.month \in 1..12
    /\ dt.day \in 1..DaysInMonth(dt.year, dt.month)
    /\ dt.hour \in 0..23
    /\ dt.minute \in 0..59
    /\ dt.second \in 0..59

\* game starts worked out by hand for the expirations tried
ExpectedGameStart ==
    { <<ExampleExpiration, <<"2", "0", "2", "5", "-", "1", "1", "-", "2", "6", "T", "0", "4", ":", "3", "0", ":", "0", "0", "+", "0", "0", ":", "0", "0">>>>,
      <<<<"2", "0", "2", "5", "-", "0", "3", "-", "0", "1", "T", "0", "1", ":", "0", "0", ":", "0", "0", "Z">>, <<"2", "0", "2", "5", "-", "0", "2", "-", "2", "8", "T", "2", "2", ":", "3", "0", ":", "0", "0", "+", "0", "0", ":", "0", "0">>>>,
      <<<<"2", "0", "2", "4", "-", "0", "3", "-", "0", "1", "T", "0", "2", ":", "2", "9", ":", "5", "9", "Z">>, <<"2", "0", "2", "4", "-", "0", "2", "-", "2", "9", "T", "2", "3", ":", "5", "9", ":", "5", "9", "+", "0", "0", ":", "0", "0">>>>,
      <<<<"2", "0", "2", "6", "-", "0", "1", "-", "0", "1", "T", "0", "0", ":", "1", "0", ":", "0", "0", "Z">>, <<"2", "0", "2", "5", "-", "1", "2", "-", "3", "1", "T", "2", "1", ":", "4", "0", ":", "0", "0", "+", "0", "0", ":", "0", "0">>>>,
      <<<<"2", "0", "2", "5", "-", "1", "1", "-", "2", "6", "T", "0", "2", ":", "0", "0", ":", "0", "0", "-", "0", "5", ":", "0", "0">>, <<"2", "0", "2", "5", "-", "1", "1", "-", "2", "5", "T", "2", "3", ":", "3", "0", ":", "0", "0", "-", "0", "5", ":", "0", "0">>>> }

\* C3: game_start is the expiration less 2h30m and the target time is
\* game_start less minutes_before minutes, 5 when the argument is left out;
\* expiration 2025-11-26T07:00:00Z gives game_start 2025-11-26T04:30:00Z
\* and, with the default, target 2025-11-26T04:25:00Z (1764131100).
C3_TargetTime ==
    PriceCallMade =>
        /\ ValidDateTime(price_call.out.game_start)
        /\ Timestamp(price_call.out.game_start) = ExpirationInstant - 9000
        /\ price_call.out.target_ts =
              ExpirationInstant - 9000
              - 60 * (IF price_call.args.minutes_before.given
                      THEN price_call.args.minutes_before.v ELSE 5)
        /\ \A e \in ExpectedGameStart :
              price_call.args.expected_expiration_time = e[1]
                  => IsoFormat(price_call.out.game_start) = e[2]
        /\ (/\ price_call.args.expected_expiration_time = ExampleExpiration
            /\ ~price_call.args.minutes_before.given)
              => price_call.out.target_ts = 1764131100

\* the expiration of the example, minutes_before left out
C3_Witness ==
    /\ PriceCallMade
    /\ price_call.args.expected_expiration_time = ExampleExpiration
    /\ ~price_call.args.minutes_before.given
    /\ price_call.out.target_ts = 1764131100
    /\ price_call.out.game_start.hour = 4
    /\ price_call.out.game_start.minute = 30

\* the provider answered with a non-empty list of samples
SamplesReturned ==
    /\ PriceCallMade
    /\ price_call.out.resp.kind = "ok"
    /\ Len(price_call.out.resp.candlesticks) > 0

\* the distance of the i-th returned sample from the target time
Distance(i) ==
    AbsDiff(price_call.out.resp.candlesticks[i].end_period_ts,
            price_call.out.target_ts)

\* the i-th returned sample is the one the record returned was made from
Retained(i) ==
    /\ price_data # NoDict
    /\ price_data.price_time_unix =
          price_call.out.resp.candlesticks[i].end_period_ts
    /\ price_data.close = price_call.out.resp.candlesticks[i].close

\* C4: the window asked for is [target_ts - 300, target_ts + 300], and of a
\* non-empty list of samples one is retained that no sample is closer to
\* the target than.
C4_ClosestSample ==
    PriceCallMade =>
        /\ price_call.out.request.start_ts = price_call.out.target_ts - 300
        /\ price_call.out.request.end_ts = price_call.out.target_ts + 300
        /\ SamplesReturned =>
              \E i \in 1..Len(price_call.out.resp.candlesticks) :
                  /\ Retained(i)
                  /\ \A j \in 1..Len(price_call.out.resp.candlesticks) :
                        Distance(i) <= Distance(j)

\* two samples, the second one closer to the target, which is retained
C4_Witness ==
    /\ SamplesReturned
    /\ Len(price_call.out.resp.candlesticks) = 2
    /\ Distance(2) < Distance(1)
    /\ Retained(2)

\* the i-th returned sample is as close to the target as any
IsClosest(i) ==
    \A j \in 1..Len(price_call.out.resp.candlesticks) : Distance(i) <= Distance(j)

\* C5 as stated: of the samples closest to the target, the one with the
\* lowest end_period_ts is retained, whatever their order in the list.
C5_LowestTimestampOnTie ==
    SamplesReturned =>
        \A i \in 1..Len(price_call.out.resp.candlesticks) :
            IsClosest(i) =>
                price_data.price_time_unix
                    <= price_call.out.resp.candlesticks[i].end_period_ts

\* C5 as amended: of the samples closest to the target, the one the
\* provider lists first is retained.
C5_FirstListedOnTie ==
    SamplesReturned =>
        \A i \in 1..Len(price_call.out.resp.candlesticks) :
            (IsClosest(i) /\ \A j \in 1..(i - 1) : ~IsClosest(j)) => Retained(i)

\* a tie whose later sample is listed first, and retained
C5_Witness ==
    /\ SamplesReturned
    /\ Len(price_call.out.resp.candlesticks) = 2
    /\ Distance(1) = Distance(2)
    /\ price_call.out.resp.candlesticks[1].end_period_ts
          > price_call.out.resp.candlesticks[2].end_period_ts
    /\ Retained(1)

(***************************************************************************)
(* get_sportsbook_odds.py: the resolver of collect_sportsbook_odds_for_    *)
(* games, which finds the two teams of a closing-line record.              *)
(***************************************************************************)
AtSep == <<" ", "@", " ">>
VsSep == <<" ", "v", "s", " ">>
Dash  == <<"-">>

\* team_map: each abbreviation with the full name of its team
team_map ==
    {
      <<<<"W", "A", "S">>,
        <<"W", "a", "s", "h", "i", "n", "g", "t", "o", "n", " ", "C", "o", "m", "m", "a", "n", "d", "e", "r", "s">>>>,
      <<<<"S", "E", "A">>,
        <<"S", "e", "a", "t", "t", "l", "e", " ", "S", "e", "a", "h", "a", "w", "k", "s">>>>,
      <<<<"D", "A", "L">>,
        <<"D", "a", "l", "l", "a", "s", " ", "C", "o", "w", "b", "o", "y", "s">>>>,
      <<<<"A", "R", "I">>,
        <<"A", "r", "i", "z", "o", "n", "a", " ", "C", "a", "r", "d", "i", "n", "a", "l", "s">>>>,
      <<<<"K", "C">>,
        <<"K", "a", "n", "s", "a", "s", " ", "C", "i", "t", "y", " ", "C", "h", "i", "e", "f", "s">>>>,
      <<<<"B", "U", "F">>,
        <<"B", "u", "f", "f", "a", "l", "o", " ", "B", "i", "l", "l", "s">>>>,
      <<<<"N", "O">>,
        <<"N", "e", "w", " ", "O", "r", "l", "e", "a", "n", "s", " ", "S", "a", "i", "n", "t", "s">>>>,
      <<<<"L", "A">>,
        <<"L", "o", "s", " ", "A", "n", "g", "e", "l", "e", "s", " ", "R", "a", "m", "s">>>>,
      <<<<"J", "A", "C">>,
        <<"J", "a", "c", "k", "s", "o", "n", "v", "i", "l", "l", "e", " ", "J", "a", "g", "u", "a", "r", "s">>>>,
      <<<<"L", "V">>,
        <<"L", "a", "s", " ", "V", "e", "g", "a", "s", " ", "R", "a", "i", "d", "e", "r", "s">>>>,
      <<<<"C", "A", "R">>,
        <<"C", "a", "r", "o", "l", "i", "n", "a", " ", "P", "a", "n", "t", "h", "e", "r", "s">>>>,
      <<<<"G", "B">>,
        <<"G", "r", "e", "e", "n", " ", "B", "a", "y", " ", "P", "a", "c", "k", "e", "r", "s">>>>,
      <<<<"D", "E", "T">>,
        <<"D", "e", "t", "r", "o", "i", "t", " ", "L", "i", "o", "n", "s">>>>,
      <<<<"M", "I", "N">>,
        <<"M", "i", "n", "n", "e", "s", "o", "t", "a", " ", "V", "i", "k", "i", "n", "g", "s">>>>,
      <<<<"C", "I", "N">>,
        <<"C", "i", "n", "c", "i", "n", "n", "a", "t", "i", " ", "B", "e", "n", "g", "a", "l", "s">>>>,
      <<<<"C", "H", "I">>,
        <<"C", "h", "i", "c", "a", "g", "o", " ", "B", "e", "a", "r", "s">>>>,
      <<<<"N", "Y", "J">>,
        <<"N", "e", "w", " ", "Y", "o", "r", "k", " ", "J", "e", "t", "s">>>>,
      <<<<"N", "E">>,
        <<"N", "e", "w", " ", "E", "n", "g", "l", "a", "n", "d", " ", "P", "a", "t", "r", "i", "o", "t", "s">>>>,
      <<<<"M", "I", "A">>,
        <<"M", "i", "a", "m", "i", " ", "D", "o", "l", "p", "h", "i", "n", "s">>>>,
      <<<<"B", "A", "L">>,
        <<"B", "a", "l", "t", "i", "m", "o", "r", "e", " ", "R", "a", "v", "e", "n", "s">>>>,
      <<<<"P", "I", "T">>,
        <<"P", "i", "t", "t", "s", "b", "u", "r", "g", "h", " ", "S", "t", "e", "e", "l", "e", "r", "s">>>>,
      <<<<"C", "L", "E">>,
        <<"C", "l", "e", "v", "e", "l", "a", "n", "d", " ", "B", "r", "o", "w", "n", "s">>>>,
      <<<<"H", "O", "U">>,
        <<"H", "o", "u", "s", "t", "o", "n", " ", "T", "e", "x", "a", "n", "s">>>>,
      <<<<"I", "N", "D">>,
        <<"I", "n", "d", "i", "a", "n", "a", "p", "o", "l", "i", "s", " ", "C", "o", "l", "t", "s">>>>,
      <<<<"T", "E", "N">>,
        <<"T", "e", "n", "n", "e", "s", "s", "e", "e", " ", "T", "i", "t", "a", "n", "s">>>>,
      <<<<"D", "E", "N">>,
        <<"D", "e", "n", "v", "e", "r", " ", "B", "r", "o", "n", "c", "o", "s">>>>,
      <<<<"L", "A", "C">>,
        <<"L", "o", "s", " ", "A", "n", "g", "e", "l", "e", "s", " ", "C", "h", "a", "r", "g", "e", "r", "s">>>>,
      <<<<"N", "Y", "G">>,
        <<"N", "e", "w", " ", "Y", "o", "r", "k", " ", "G", "i", "a", "n", "t", "s">>>>,
      <<<<"P", "H", "I">>,
        <<"P", "h", "i", "l", "a", "d", "e", "l", "p", "h", "i", "a", " ", "E", "a", "g", "l", "e", "s">>>>,
      <<<<"S", "F">>,
        <<"S", "a", "n", " ", "F", "r", "a", "n", "c", "i", "s", "c", "o", " ", "4", "9", "e", "r", "s">>>>,
      <<<<"T", "B">>,
        <<"T", "a", "m", "p", "a", " ", "B", "a", "y", " ", "B", "u", "c", "c", "a", "n", "e", "e", "r", "s">>>>,
      <<<<"A", "T", "L">>,
        <<"A", "t", "l", "a", "n", "t", "a", " ", "F", "a", "l", "c", "o", "n", "s">>>>
    }

TeamCodes == {p[1] : p \in team_map}

\* team_map[code]
TeamName(code) == (CHOOSE p \in team_map : p[1] = code)[2]

\* Python truth of a str or None
NonEmpty(x) == x \notin {None, Absent, << >>}

\* the resolver found no teams
NoTeams(rule) ==
    [exc |-> "none", rule |-> rule, home_team |-> None, away_team |-> None]

\* away_team, home_team = subtitle.split(' @ '): the unpacking raises
\* ValueError unless the split gives exactly two parts
AtRule(parts) ==
    IF Len(parts) = 2
    THEN [exc |-> "none", rule |-> "at",
          home_team |-> parts[2], away_team |-> parts[1]]
    ELSE [exc |-> "ValueError", rule |-> "at",
          home_team |-> None, away_team |-> None]

\* A mutant of VsRule: the text before the separator is the away team.
VsRuleAwayFirst(teams) ==
    [exc |-> "none", rule |-> "vs",
     home_team |-> teams[2], away_team |-> teams[1]]

\* teams = subtitle.split(' vs '); home_team, away_team = teams[0], teams[1]
VsRule(teams) ==
    [exc |-> "none", rule |-> "vs",
     home_team |-> teams[1], away_team |-> teams[2]]

\* the places i of range(2, len(team_part)) where team_part[:i] and
\* team_part[i:] are both abbreviations of team_map
SplitPoints(team_part) ==
    {i \in 2..(Len(team_part) - 1) :
        /\ SubSeq(team_part, 1, i) \in TeamCodes
        /\ SubSeq(team_part, i + 1, Len(team_part)) \in TeamCodes}

FirstSplit(team_part) ==
    CHOOSE i \in SplitPoints(team_part) :
        \A j \in SplitPoints(team_part) : i <= j

\* which of the two abbreviations is the home team
AssignCodes(team1, team2, winner) ==
    IF winner = team1 THEN [home_code |-> team1, away_code |-> team2]
    ELSE IF winner = team2 THEN [home_code |-> team2, away_code |-> team1]
    ELSE [home_code |-> team2, away_code |-> team1]

\* the for loop over the split points, left at the first that fits
CodesOf(team_part, winner) ==
    IF SplitPoints(team_part) = {}
    THEN [home_code |-> None, away_code |-> None]
    ELSE AssignCodes(SubSeq(team_part, 1, FirstSplit(team_part)),
                     SubSeq(team_part, FirstSplit(team_part) + 1, Len(team_part)),
                     winner)

\* the full names, when both codes are abbreviations and differ
NamesOf(codes) ==
    IF /\ codes.away_code \in TeamCodes
       /\ codes.home_code \in TeamCodes
       /\ codes.away_code # codes.home_code
    THEN [exc |-> "none", rule |-> "ticker",
          home_team |-> TeamName(codes.home_code),
          away_team |-> TeamName(codes.away_code)]
    ELSE NoTeams("ticker")

\* parts = ticker.split('-'); team_part = parts[1][7:]; winner = parts[2]
TickerRule(parts) ==
    IF Len(parts) >= 3
    THEN NamesOf(CodesOf(DropFirst(parts[2], 7), parts[3]))
    ELSE NoTeams("ticker")

\* the resolver once subtitle (stripped) and ticker are read
ResolveStripped(subtitle, ticker) ==
    IF subtitle # << >> /\ (Contains(subtitle, AtSep) \/ Contains(subtitle, VsSep))
    THEN IF Contains(subtitle, AtSep)
         THEN AtRule(Split(subtitle, AtSep))
         ELSE VsRule(Split(subtitle, VsSep))
    ELSE TickerRule(Split(ticker, Dash))

\* kalshi_game.get('subtitle', '') and kalshi_game.get('ticker', '')
SubtitleOf(kalshi_game) ==
    IF kalshi_game.subtitle = Absent THEN << >> ELSE kalshi_game.subtitle

TickerOf(kalshi_game) ==
    IF kalshi_game.ticker = Absent THEN << >> ELSE kalshi_game.ticker

\* The resolver: home_team and away_team as they stand when the loop body
\* tests them, the rule that was applied, and the exception raised, if any
\* (None has no strip).
ResolveTeams(kalshi_game) ==
    IF SubtitleOf(kalshi_game) = None
    THEN [exc |-> "AttributeError", rule |-> "none",
          home_team |-> None, away_team |-> None]
    ELSE ResolveStripped(Strip(SubtitleOf(kalshi_game)), TickerOf(kalshi_game))

(***************************************************************************)
(* odds_client.py: OddsAPIClient.find_game_by_teams.                       *)
(***************************************************************************)
UpperCase == <<"A", "B", "C", "D", "E", "F", "G", "H", "I", "J", "K", "L", "M", "N", "O", "P", "Q", "R", "S", "T", "U", "V", "W", "X", "Y", "Z">>
LowerCase == <<"a", "b", "c", "d", "e", "f", "g", "h", "i", "j", "k", "l", "m", "n", "o", "p", "q", "r", "s", "t", "u", "v", "w", "x", "y", "z">>

LowerChar(c) ==
    IF \E i \in 1..Len(UpperCase) : UpperCase[i] = c
    THEN LowerCase[CHOOSE i \in 1..Len(UpperCase) : UpperCase[i] = c]
    ELSE c

\* s.lower()
Lower(s) == [i \in 1..Len(s) |-> LowerChar(s[i])]

\* a in b or b in a
EitherContains(a, b) == Contains(b, a) \/ Contains(a, b)

\* A mutant of TeamsMatch: only team1 at home and team2 away is tried.
TeamsMatchOneOrder(home_team, away_team, team1_lower, team2_lower) ==
    /\ EitherContains(team1_lower, home_team)
    /\ EitherContains(team2_lower, away_team)

\* the condition of the if statement, on lower-cased names
TeamsMatch(home_team, away_team, team1_lower, team2_lower) ==
    \/ /\ EitherContains(team1_lower, home_team)
       /\ EitherContains(team2_lower, away_team)
    \/ /\ EitherContains(team2_lower, home_team)
       /\ EitherContains(team1_lower, away_team)

GameMatches(game, team1, team2) ==
    TeamsMatch(Lower(game.home_team), Lower(game.away_team),
               Lower(team1), Lower(team2))

\* A mutant of find_game_by_teams: the last game that matches is returned.
FindLastGame(odds_data, team1, team2) ==
    IF \E i \in 1..Len(odds_data) : GameMatches(odds_data[i], team1, team2)
    THEN odds_data[CHOOSE i \in 1..Len(odds_data) :
                      /\ GameMatches(odds_data[i], team1, team2)
                      /\ \A j \in (i + 1)..Len(odds_data) :
                            ~GameMatches(odds_data[j], team1, team2)]
    ELSE NoDict

\* the first game of the list that matches, None when there is none
find_game_by_teams(odds_data, team1, team2) ==
    IF \E i \in 1..Len(odds_data) : GameMatches(odds_data[i], team1, team2)
    THEN odds_data[CHOOSE i \in 1..Len(odds_data) :
                      /\ GameMatches(odds_data[i], team1, team2)
                      /\ \A j \in 1..(i - 1) :
                            ~GameMatches(odds_data[j], team1, team2)]
    ELSE NoDict

(***************************************************************************)
(* get_sportsbook_odds.py and test_sportsbook_odds.py:                     *)
(* get_sportsbook_odds_before_game_start.                                  *)
(***************************************************************************)
\* the parameters of OddsAPIClient.get_historical_odds
HistoricalOddsParameters ==
    {"date", "markets", "regions", "bookmakers", "odds_format", "date_format"}

\* the keywords with which each program calls get_historical_odds
HistoricalOddsKeywords(p) ==
    IF p = "odds"
    THEN {"date", "sport", "markets", "regions", "odds_format"}
    ELSE {"date", "markets", "regions", "odds_format"}

\* the minutes_before the loop passes
LoopMinutesBefore == 5

\* target_time.strftime('%Y-%m-%dT%H:%M:%SZ'): the wall clock, then a Z
StrfTimeZ(dt) ==
    Pad(dt.year, 4) \o <<"-">> \o Pad(dt.month, 2) \o <<"-">>
    \o Pad(dt.day, 2) \o <<"T">> \o Pad(dt.hour, 2) \o <<":">>
    \o Pad(dt.minute, 2) \o <<":">> \o Pad(dt.second, 2) \o <<"Z">>

\* the dict the function returns for the game found
Snapshot(game_data, game_start, target_time) ==
    [game_id |-> game_data.id,
     home_team |-> game_data.home_team,
     away_team |-> game_data.away_team,
     game_start |-> IsoFormat(game_start),
     collection_time |-> IsoFormat(target_time)]

\* the try statement once game_data is found or not
OddsWithGameData(game_data, game_start, target_time) ==
    IF game_data = NoDict
    THEN NoDict
    ELSE Snapshot(game_data, game_start, target_time)

\* The try statement once get_historical_odds has answered: a failure, an
\* empty payload, a payload that is a list (it has no get), or a dict
\* whose data is the list of games.
OddsWithResult(home_team, away_team, game_start, target_time, resp) ==
    [request |-> [date |-> StrfTimeZ(target_time)],
     exc |-> IF resp.kind = "list" THEN "AttributeError" ELSE "none",
     ret |-> IF resp.kind = "games"
             THEN OddsWithGameData(
                      find_game_by_teams(resp.data, home_team, away_team),
                      game_start, target_time)
             ELSE NoDict]

\* The call of get_historical_odds: a keyword that is not a parameter
\* raises TypeError before any request is made.
OddsWithTarget(keywords, home_team, away_team, game_start, target_time, resp) ==
    IF keywords \subseteq HistoricalOddsParameters
    THEN OddsWithResult(home_team, away_team, game_start, target_time, resp)
    ELSE [request |-> NoDict, exc |-> "TypeError", ret |-> NoDict]

\* target_time = game_start - timedelta(minutes=minutes_before)
OddsWithGameStart(keywords, home_team, away_team, game_start, minutes_before, resp) ==
    OddsWithTarget(keywords, home_team, away_team, game_start,
                   MinusSeconds(game_start, minutes_before * 60), resp)

\* The body of the try statement: exc is the exception it raised ("none"
\* when it returned), ret the value it returned, request the request made.
OddsTry(keywords, home_team, away_team, game_start_time, minutes_before, resp) ==
    IF ~IsoWellFormed(ReplaceZ(game_start_time))
    THEN [request |-> NoDict, exc |-> "ValueError", ret |-> NoDict]
    ELSE OddsWithGameStart(keywords, home_team, away_team,
                           FromIsoFormat(ReplaceZ(game_start_time)),
                           minutes_before, resp)

\* what the function does with the outcome t of its try statement
HandleOdds(t, resp) ==
    [exc |-> t.exc, request |-> t.request, resp |-> resp,
     raised |-> t.exc # "none" /\ ~Caught(t.exc),
     ret |-> IF t.exc = "none" THEN t.ret ELSE NoDict]

\* The function: the try statement and its handler, which returns None.
get_sportsbook_odds_before_game_start(keywords, home_team, away_team, game_start_time, minutes_before, resp) ==
    HandleOdds(OddsTry(keywords, home_team, away_team, game_start_time,
                       minutes_before, resp), resp)

(***************************************************************************)
(* collect_sportsbook_odds_for_games and test_collect_sportsbook_odds:     *)
(* the loop over the closing-line records.                                 *)
(***************************************************************************)
\* bounds of the inputs
MaxSeparators == 2
MaxListed == 1

Code(a, b, c) == <<a, b, c>>
SEA == Code("S", "E", "A")
WAS == Code("W", "A", "S")
ARI == Code("A", "R", "I")
\* a winner text that is no abbreviation
TIE == Code("T", "I", "E")

TickerPrefix == <<"K", "X", "N", "F", "L", "G", "A", "M", "E">>
TickerDate   == <<"2", "5", "N", "O", "V", "0", "2">>

Ticker(code1, code2, winner) ==
    TickerPrefix \o Dash \o TickerDate \o code1 \o code2 \o Dash \o winner

ExampleTicker == Ticker(SEA, WAS, WAS)

\* game_start texts: as isoformat writes them, with a Z, and not a time
KickoffTime  == <<"2", "0", "2", "5", "-", "1", "1", "-", "0", "2", "T", "1", "8", ":", "0", "0", ":", "0", "0", "+", "0", "0", ":", "0", "0">>
KickoffTimeZ == <<"2", "0", "2", "5", "-", "1", "1", "-", "0", "3", "T", "0", "1", ":", "2", "0", ":", "0", "0", "Z">>
NotATime     == <<"T", "B", "D">>

\* subtitles: names and separators in turn, k separators
SubtitleNames == {TeamName(SEA), TeamName(ARI)}
Separators    == {AtSep, VsSep}

RECURSIVE Alternating(_)
Alternating(k) ==
    IF k = 0
    THEN {<<n>> : n \in SubtitleNames}
    ELSE {a \o <<sp, n>> :
            a \in Alternating(k - 1), sp \in Separators, n \in SubtitleNames}

Subtitles ==
    {pre \o Concat(a) \o suf :
        a \in UNION {Alternating(k) : k \in 0..MaxSeparators},
        pre \in {<< >>, AtSep, VsSep},
        suf \in {<< >>, <<" ">>}}

\* records that differ in the subtitle
SubtitleRecords ==
    {[ticker |-> ExampleTicker, subtitle |-> sub, game_start |-> KickoffTime] :
        sub \in Subtitles \cup {<< >>, None, Absent}}

\* records without a subtitle that differ in the ticker: every pair of
\* abbreviations, with either as winner or neither
TickerRecords ==
    {[ticker |-> Ticker(cw[1], cw[2], cw[3]), subtitle |-> Absent,
      game_start |-> KickoffTime] :
        cw \in UNION {{<<c1, c2, w>> : w \in {c1, c2, TIE}} :
                         c1 \in TeamCodes, c2 \in TeamCodes}}

\* a few records of every kind, for files of several records
CatalogRecords ==
    {[ticker |-> ExampleTicker, subtitle |-> Absent, game_start |-> KickoffTimeZ],
     [ticker |-> Ticker(SEA, ARI, TIE),
      subtitle |-> TeamName(SEA) \o AtSep \o TeamName(ARI),
      game_start |-> KickoffTime],
     [ticker |-> TickerPrefix, subtitle |-> << >>, game_start |-> KickoffTime],
     [ticker |-> ExampleTicker, subtitle |-> None, game_start |-> KickoffTime],
     [ticker |-> ExampleTicker, subtitle |-> Absent, game_start |-> Absent],
     [ticker |-> ExampleTicker, subtitle |-> Absent, game_start |-> NotATime],
     [ticker |-> TickerPrefix, subtitle |-> None, game_start |-> KickoffTime]}

ClosingLinesFiles ==
    {<<g>> : g \in SubtitleRecords \cup TickerRecords}
    \cup SeqsUpTo(CatalogRecords, MaxGames)

\* the games the provider may list
ProviderGames ==
    {[id |-> "g1", home_team |-> TeamName(ARI), away_team |-> TeamName(SEA)],
     [id |-> "g2", home_team |-> TeamName(WAS), away_team |-> TeamName(SEA)]}

\* what get_historical_odds may answer
OddsResponses ==
    {[kind |-> "error"], [kind |-> "empty"]}
    \cup [kind : {"list"}, data : {<<g>> : g \in ProviderGames}]
    \cup [kind : {"games"}, data : SeqsUpTo(ProviderGames, MaxListed)]

InitOdds ==
    /\ prog \in {"odds", "odds_test"}
    /\ pc = "run"
    /\ closing_lines \in (IF prog = "odds"
                          THEN ClosingLinesFiles
                          ELSE SeqsUpTo(CatalogRecords, MaxGames))
    /\ processed = 0
    /\ successful = 0
    /\ failed = 0
    /\ sportsbook_odds = << >>
    /\ resolved = Idle
    /\ lookup = Idle
    /\ all_markets = << >>
    /\ cursor = None
    /\ page = 1
    /\ requests = << >>
    /\ responses = << >>
    /\ price_call = Idle
    /\ price_data = Idle
    /\ output_data = NoDict
    /\ LoopIdle /\ MatchIdle /\ LiveIdle /\ CallIdle /\ SeriesIdle /\ MasterIdle

\* the record is counted as failed and the loop goes on to the next
Skip ==
    /\ failed' = failed + 1
    /\ lookup' = Idle
    /\ UNCHANGED <<pc, successful, sportsbook_odds>>

\* A mutant of Collect: a lookup that returned None is not counted.
CollectUncounted(kalshi_game, args, out) ==
    /\ lookup' = [state |-> "returned", args |-> args, out |-> out]
    /\ IF out.raised
       THEN /\ pc' = "raised"
            /\ UNCHANGED <<successful, failed, sportsbook_odds>>
       ELSE IF out.ret # NoDict
       THEN /\ sportsbook_odds' =
                  Append(sportsbook_odds,
                         [odds_data |-> out.ret,
                          kalshi_ticker |-> kalshi_game.ticker])
            /\ successful' = successful + 1
            /\ UNCHANGED <<pc, failed>>
       ELSE UNCHANGED <<pc, successful, failed, sportsbook_odds>>

\* the end of the loop body, from the return of the lookup
Collect(kalshi_game, args, out) ==
    /\ lookup' = [state |-> "returned", args |-> args, out |-> out]
    /\ IF out.raised
       THEN /\ pc' = "raised"
            /\ UNCHANGED <<successful, failed, sportsbook_odds>>
       ELSE IF out.ret # NoDict
       THEN /\ sportsbook_odds' =
                  Append(sportsbook_odds,
                         [odds_data |-> out.ret,
                          kalshi_ticker |-> kalshi_game.ticker])
            /\ successful' = successful + 1
            /\ UNCHANGED <<pc, failed>>
       ELSE /\ failed' = failed + 1
            /\ UNCHANGED <<pc, successful, sportsbook_odds>>

\* the call of the lookup with the stripped names
CallLookup(kalshi_game, home_team, away_team, resp) ==
    Collect(kalshi_game,
            [home_team |-> home_team, away_team |-> away_team,
             game_start_time |-> kalshi_game.game_start,
             minutes_before |-> LoopMinutesBefore],
            get_sportsbook_odds_before_game_start(
                HistoricalOddsKeywords(prog), home_team, away_team,
                kalshi_game.game_start, LoopMinutesBefore, resp))

\* the lookup is reached: teams were found and there is a game start
Reaches(kalshi_game, r) ==
    /\ r.exc = "none"
    /\ NonEmpty(r.home_team) /\ NonEmpty(r.away_team)
    /\ NonEmpty(kalshi_game.game_start)

\* the loop body for one record, r being what the resolver gave
LoopBody(kalshi_game, r) ==
    /\ resolved' = r
    /\ IF r.exc # "none"
       THEN /\ pc' = "raised"
            /\ lookup' = Idle
            /\ UNCHANGED <<successful, failed, sportsbook_odds>>
       ELSE IF ~Reaches(kalshi_game, r)
       THEN Skip
       ELSE \E resp \in OddsResponses :
               CallLookup(kalshi_game, Strip(r.home_team),
                          Strip(r.away_team), resp)

\* One pass of the for loop.
ProcessGame ==
    /\ prog \in {"odds", "odds_test"}
    /\ pc = "run"
    /\ processed < Len(closing_lines)
    /\ processed' = processed + 1
    /\ LoopBody(closing_lines[processed + 1],
                ResolveTeams(closing_lines[processed + 1]))
    /\ UNCHANGED <<prog, closing_lines, output_data>>
    /\ UNCHANGED fetchVars
    /\ UNCHANGED priceVars
    /\ UNCHANGED <<loopVars, matchVars, liveVars, callVars, seriesVars, masterVars>>

\* The loop is over and the results are saved.
SaveResults ==
    /\ prog \in {"odds", "odds_test"}
    /\ pc = "run"
    /\ processed = Len(closing_lines)
    /\ pc' = "done"
    /\ output_data' = [total_games_processed |-> processed,
                       successful |-> successful,
                       failed |-> failed,
                       sportsbook_odds |-> sportsbook_odds]
    /\ UNCHANGED <<prog, closing_lines, processed, successful, failed,
                   sportsbook_odds, resolved, lookup>>
    /\ UNCHANGED fetchVars
    /\ UNCHANGED priceVars
    /\ UNCHANGED <<loopVars, matchVars, liveVars, callVars, seriesVars, masterVars>>

NextOdds == ProcessGame \/ SaveResults

SpecOdds == InitOdds /\ [][NextOdds]_vars

(***************************************************************************)
(* The three programs together.                                            *)
(***************************************************************************)
Init == InitFetch \/ InitPrice \/ InitOdds

Next == NextFetch \/ NextPrice \/ NextOdds

Spec == Init /\ [][Next]_vars

(***************************************************************************)
(* Properties of the two lookups and of the resolver.                      *)
(***************************************************************************)
OddsPrograms == {"odds", "odds_test"}

PriceReturned == prog = "price" /\ price_call.state = "returned"

LookupReturned == prog \in OddsPrograms /\ lookup.state = "returned"

\* no sample: the request failed, the answer has no candlesticks key, or
\* its list is empty
NoSample(out) ==
    \/ out.exc # "none"
    \/ out.resp.kind \in {"error", "no_key"}
    \/ out.resp.kind = "ok" /\ out.resp.candlesticks = << >>

\* no game: the request failed, the payload is empty, or no listed game
\* matches the two names
NoGame(args, out) ==
    \/ out.exc # "none"
    \/ out.resp.kind \in {"error", "empty"}
    \/ /\ out.resp.kind = "games"
       /\ find_game_by_teams(out.resp.data, args.home_team, args.away_team)
              = NoDict

\* C6: both lookups fail closed.  A call of get_price_before_game_start or
\* of get_sportsbook_odds_before_game_start never raises to its caller,
\* and it returns None on a transport or HTTP error, on an empty or
\* missing payload, and when no sample or no matching game is found.
C6_FailClosed ==
    /\ PriceReturned =>
          /\ ~price_call.out.raised
          /\ NoSample(price_call.out) => price_call.out.ret = NoDict
    /\ LookupReturned =>
          /\ ~lookup.out.raised
          /\ NoGame(lookup.args, lookup.out) => lookup.out.ret = NoDict

\* a price lookup whose request failed has returned None
C6_Witness ==
    /\ PriceReturned
    /\ price_call.out.exc = "RequestException"
    /\ price_call.out.request # NoDict
    /\ ~price_call.out.raised
    /\ price_call.out.ret = NoDict

\* the game the provider lists for the two names of the lookup
MatchedGame ==
    find_game_by_teams(lookup.out.resp.data, lookup.args.home_team,
                       lookup.args.away_team)

\* the provider answers the historical request with a list of games that
\* has a game for the two names
ProviderHasGame ==
    /\ lookup.state = "returned"
    /\ IsoWellFormed(ReplaceZ(lookup.args.game_start_time))
    /\ lookup.out.resp.kind = "games"
    /\ MatchedGame # NoDict

\* game_start - minutes_before, as isoformat writes it
ExpectedCollectionTime ==
    IsoFormat(MinusSeconds(FromIsoFormat(ReplaceZ(lookup.args.game_start_time)),
                           lookup.args.minutes_before * 60))

\* C7: in get_sportsbook_odds.py, when the historical request succeeds and
\* the list has a game that find_game_by_teams matches for the resolved
\* names, the lookup returns a snapshot with the id, home team and away
\* team of that game and collection_time = game_start - minutes_before.
C7_SnapshotOfMatchedGame ==
    (prog = "odds" /\ ProviderHasGame) =>
        /\ lookup.out.ret # NoDict
        /\ lookup.out.ret.game_id = MatchedGame.id
        /\ lookup.out.ret.home_team = MatchedGame.home_team
        /\ lookup.out.ret.away_team = MatchedGame.away_team
        /\ lookup.out.ret.collection_time = ExpectedCollectionTime

\* the provider has the game, yet the lookup made no request and gave None
C7_Witness ==
    /\ prog = "odds"
    /\ ProviderHasGame
    /\ lookup.out.exc = "TypeError"
    /\ lookup.out.request = NoDict
    /\ lookup.out.ret = NoDict

\* the record the loop has just processed
LastGame == closing_lines[processed]

GameProcessed == prog = "odds" /\ processed >= 1

IsText(x) == x \notin {None, Absent}

\* the subtitle as the resolver reads it, blanks at both ends removed
LastSubtitle == Strip(LastGame.subtitle)

\* the text of s before the first sep, and the text after it
Before(s, sep) == SubSeq(s, 1, Find(s, sep) - 1)
After(s, sep) == SubSeq(s, Find(s, sep) + Len(sep), Len(s))

\* C8: for a record whose subtitle contains " @ ", the resolver takes the
\* text before the separator as the away team and the text after it as the
\* home team, before the " vs " rule and before the ticker.
C8_AtRule ==
    (GameProcessed /\ IsText(LastGame.subtitle)
     /\ Contains(LastSubtitle, AtSep)) =>
        /\ resolved.exc = "none"
        /\ resolved.rule = "at"
        /\ resolved.away_team = Before(LastSubtitle, AtSep)
        /\ resolved.home_team = After(LastSubtitle, AtSep)

\* a subtitle with two " @ " has made the loop raise ValueError
C8_Witness ==
    /\ GameProcessed
    /\ IsText(LastGame.subtitle)
    /\ Len(Split(LastSubtitle, AtSep)) = 3
    /\ resolved.exc = "ValueError"
    /\ pc = "raised"

\* C9 as stated: for a record whose subtitle contains " vs " and no " @ ",
\* home is the text before the first " vs " and away the text after it,
\* and the ticker is not parsed.
C9_VsRuleAsStated ==
    (GameProcessed /\ IsText(LastGame.subtitle)
     /\ Contains(LastGame.subtitle, VsSep)
     /\ ~Contains(LastGame.subtitle, AtSep)) =>
        /\ resolved.exc = "none"
        /\ resolved.rule = "vs"
        /\ Strip(resolved.home_team) = Strip(Before(LastGame.subtitle, VsSep))
        /\ Strip(resolved.away_team) = Strip(After(LastGame.subtitle, VsSep))

\* the text of s up to the first sep, all of s when there is none
UpTo(s, sep) == IF Contains(s, sep) THEN Before(s, sep) ELSE s

\* C9 (amended): for a record whose subtitle, blanks at both ends removed,
\* contains " vs " and no " @ ", home is the text before the first " vs "
\* and away the text between the first " vs " and the next one (the end of
\* the subtitle when there is no other), and the ticker is not parsed.
C9_VsRule ==
    (GameProcessed /\ IsText(LastGame.subtitle)
     /\ Contains(LastSubtitle, VsSep)
     /\ ~Contains(LastSubtitle, AtSep)) =>
        /\ resolved.exc = "none"
        /\ resolved.rule = "vs"
        /\ resolved.home_team = Before(LastSubtitle, VsSep)
        /\ resolved.away_team = UpTo(After(LastSubtitle, VsSep), VsSep)

\* a subtitle with two " vs " was resolved by the " vs " rule, and away is
\* not all the text after the first " vs "
C9_Witness ==
    /\ GameProcessed
    /\ IsText(LastGame.subtitle)
    /\ ~Contains(LastSubtitle, AtSep)
    /\ Len(Split(LastSubtitle, VsSep)) = 3
    /\ resolved.rule = "vs"
    /\ resolved.away_team # After(LastSubtitle, VsSep)
    /\ resolved.away_team = TeamName(ARI)

\* the record has no subtitle the resolver could use: none at all, null,
\* or a text without separator
NoUsableSubtitle(subtitle) ==
    \/ ~IsText(subtitle)
    \/ ~Contains(Strip(subtitle), AtSep) /\ ~Contains(Strip(subtitle), VsSep)

\* where the team codes start in a ticker
CodesStart == Len(TickerPrefix) + Len(Dash) + Len(TickerDate) + 1

\* the teams the winner-match rule gives for code1, code2 and winner
RuleHome(code1, code2, winner) ==
    IF winner = code1 THEN TeamName(code1) ELSE TeamName(code2)

RuleAway(code1, code2, winner) ==
    IF winner = code1 THEN TeamName(code2) ELSE TeamName(code1)

\* C10: for every ticker PREFIX-<7-char date><code1><code2>-<winner> of a
\* record with no usable subtitle, code1 and code2 being two codes of the
\* table, the resolver gives the two full names: home is the team whose
\* code equals winner, and when winner equals neither, code1 is away and
\* code2 is home.  KXNFLGAME-25NOV02SEAWAS-WAS gives home = Washington
\* Commanders, away = Seattle Seahawks.
C10_TickerRule ==
    (GameProcessed /\ NoUsableSubtitle(LastGame.subtitle)) =>
        /\ \A code1 \in TeamCodes :
              OccursAt(LastGame.ticker, code1, CodesStart) =>
                 \A code2 \in TeamCodes \ {code1} :
                    \A winner \in {code1, code2, TIE} :
                       LastGame.ticker = Ticker(code1, code2, winner) =>
                          /\ resolved.exc = "none"
                          /\ resolved.home_team = RuleHome(code1, code2, winner)
                          /\ resolved.away_team = RuleAway(code1, code2, winner)
        /\ LastGame.ticker = ExampleTicker =>
              /\ resolved.home_team = TeamName(WAS)
              /\ resolved.away_team = TeamName(SEA)

\* the example ticker with a null subtitle has made the loop raise
C10_Witness ==
    /\ GameProcessed
    /\ LastGame.ticker = ExampleTicker
    /\ LastGame.subtitle = None
    /\ resolved.exc = "AttributeError"
    /\ pc = "raised"

(***************************************************************************)
(* Properties of the loop of collect_sportsbook_odds_for_games.            *)
(***************************************************************************)
\* the resolver left a home team and an away team
HasPair(r) == NonEmpty(r.home_team) /\ NonEmpty(r.away_team)

\* a step of the loop of get_sportsbook_odds.py that handles one record
RecordStep == prog = "odds" /\ processed' = processed + 1

\* C11: when no resolver rule yields a team pair for a record, no odds
\* request is made for it, failed grows by exactly 1, nothing is added to
\* sportsbook_odds, and the loop continues with the next record.
C11_UnresolvedCounted ==
    [][(RecordStep /\ ~HasPair(resolved')) =>
          /\ lookup' = Idle
          /\ failed' = failed + 1
          /\ successful' = successful
          /\ sportsbook_odds' = sportsbook_odds
          /\ pc' = "run"]_vars

\* a record with a null subtitle and a ticker without team codes: no rule
\* gave a pair, the record was not counted and the loop was left
C11_Witness ==
    /\ GameProcessed
    /\ LastGame.ticker = TickerPrefix
    /\ LastGame.subtitle = None
    /\ ~HasPair(resolved)
    /\ failed = 0
    /\ pc = "raised"

\* the loop of get_sportsbook_odds.py has made a lookup for the last record
LookupMade == prog = "odds" /\ lookup.state = "returned"

\* C12: whenever the loop proceeds to an odds lookup for a record, by any
\* of the three rules, the home and away names it passes are two distinct,
\* non-empty team names; a record that resolves to the same name on both
\* sides is a resolution failure.
C12_DistinctNames ==
    LookupMade =>
        /\ NonEmpty(lookup.args.home_team)
        /\ NonEmpty(lookup.args.away_team)
        /\ lookup.args.home_team # lookup.args.away_team

\* the " @ " rule gave the same team on both sides and the lookup was made
C12_Witness ==
    /\ LookupMade
    /\ resolved.rule = "at"
    /\ lookup.args.home_team = TeamName(SEA)
    /\ lookup.args.away_team = TeamName(SEA)
    /\ failed = 1

\* C13: one bad item never aborts the batch.  Whatever the subtitle, ticker
\* and game_start of each record (absent, null, several separators),
\* collect_sportsbook_odds_for_games visits every record and then writes
\* the output envelope; no record's processing raises out of the loop.
C13_NeverAborts ==
    prog = "odds" =>
        /\ pc # "raised"
        /\ pc = "done" =>
              /\ processed = Len(closing_lines)
              /\ output_data # NoDict

\* the first of two records raised: the second was never visited and no
\* envelope was written
C13_Witness ==
    /\ prog = "odds"
    /\ pc = "raised"
    /\ resolved.exc \in {"AttributeError", "ValueError"}
    /\ processed = 1
    /\ Len(closing_lines) = 2
    /\ output_data = NoDict

(***************************************************************************)
(* odds_client.py: calls of find_game_by_teams on lists of games.          *)
(***************************************************************************)
MaxMatchList == 2

\* names as the provider writes them and as a caller asks for them
ShortName    == <<"C", "a", "r", "d", "i", "n", "a", "l", "s">>
UpperName    == <<"S", "E", "A", "H", "A", "W", "K", "S">>
ListedNames  == {TeamName(SEA), TeamName(ARI), ShortName}
AskedNames   == {TeamName(SEA), TeamName(ARI), UpperName, << >>}

\* the lists of at most n games; the id of a game is its place in the list
GameLists(n) ==
    UNION {{[i \in 1..k |-> [id |-> i, home_team |-> h[i], away_team |-> a[i]]] :
               h \in [1..k -> ListedNames], a \in [1..k -> ListedNames]} :
           k \in 0..n}

InitMatch ==
    /\ prog = "match"
    /\ pc = "run"
    /\ \E odds_data \in GameLists(MaxMatchList),
          team1 \in AskedNames, team2 \in AskedNames :
          match_call = [state |-> "called",
                        args |-> [odds_data |-> odds_data, team1 |-> team1,
                                  team2 |-> team2]]
    /\ all_markets = << >>
    /\ cursor = None
    /\ page = 1
    /\ requests = << >>
    /\ responses = << >>
    /\ price_call = Idle
    /\ price_data = Idle
    /\ closing_lines = << >>
    /\ processed = 0
    /\ successful = 0
    /\ failed = 0
    /\ sportsbook_odds = << >>
    /\ resolved = Idle
    /\ lookup = Idle
    /\ output_data = NoDict
    /\ LoopIdle /\ LiveIdle /\ CallIdle /\ SeriesIdle /\ MasterIdle

\* The call of find_game_by_teams, from entry to return.
FindGame ==
    /\ prog = "match"
    /\ pc = "run"
    /\ match_call.state = "called"
    /\ match_call' = [state |-> "returned", args |-> match_call.args,
                      out |-> find_game_by_teams(match_call.args.odds_data,
                                                 match_call.args.team1,
                                                 match_call.args.team2)]
    /\ pc' = "done"
    /\ UNCHANGED <<prog, fetchVars, priceVars, oddsVars, output_data>>
    /\ UNCHANGED <<loopVars, liveVars, callVars, seriesVars, masterVars>>

NextMatch == FindGame

SpecMatch == InitMatch /\ [][NextMatch]_vars

MatchReturned == prog = "match" /\ match_call.state = "returned"

\* a and b, case ignored, are substrings of one another in some direction
Fuzzy(a, b) ==
    \/ Contains(Lower(a), Lower(b))
    \/ Contains(Lower(b), Lower(a))

\* the game satisfies the condition for team1 and team2, in either order
Satisfies(game, team1, team2) ==
    \/ Fuzzy(team1, game.home_team) /\ Fuzzy(team2, game.away_team)
    \/ Fuzzy(team2, game.home_team) /\ Fuzzy(team1, game.away_team)

\* the places of the list whose game satisfies the condition
Satisfying(args) ==
    {i \in 1..Len(args.odds_data) :
        Satisfies(args.odds_data[i], args.team1, args.team2)}

\* C14: find_game_by_teams returns the first game in list order whose
\* home and away names, case ignored, contain or are contained in team1
\* and team2, in this order or swapped, and None when no game does.  A game
\* whose names equal the requested ones is always found.
C14_FirstFuzzyMatch ==
    MatchReturned =>
        /\ Satisfying(match_call.args) = {} => match_call.out = NoDict
        /\ \A i \in Satisfying(match_call.args) :
              (\A j \in Satisfying(match_call.args) : i <= j) =>
                 match_call.out = match_call.args.odds_data[i]
        /\ (\E i \in 1..Len(match_call.args.odds_data) :
               /\ match_call.args.odds_data[i].home_team = match_call.args.team1
               /\ match_call.args.odds_data[i].away_team = match_call.args.team2)
              => match_call.out # NoDict

\* two listed games satisfy the condition, one of them only with the case
\* ignored and the names swapped, and the first was returned
C14_Witness ==
    /\ MatchReturned
    /\ match_call.args.team1 = UpperName
    /\ match_call.args.team2 = TeamName(ARI)
    /\ Satisfying(match_call.args) = {1, 2}
    /\ match_call.args.odds_data[1].home_team = ShortName
    /\ match_call.args.odds_data[1].away_team = TeamName(SEA)
    /\ match_call.out.id = 1

\* the provider's answer to the historical query has no game: the payload
\* is empty, or it is a dict whose data is the empty list
EmptyGameList(resp) ==
    \/ resp.kind = "empty"
    \/ resp.kind = "games" /\ resp.data = << >>

\* a step of either copy of the loop in which the lookup was made
LookupStep ==
    /\ prog \in OddsPrograms
    /\ processed' = processed + 1
    /\ lookup'.state = "returned"

\* C15: when the provider answers the historical query with an empty game
\* list, the lookup returns None, the loop adds exactly 1 to failed, leaves
\* successful and sportsbook_odds as they were for that record, and goes
\* on with the remaining records.
C15_EmptyListCounted ==
    [][(LookupStep /\ EmptyGameList(lookup'.out.resp)) =>
          /\ ~lookup'.out.raised
          /\ lookup'.out.ret = NoDict
          /\ failed' = failed + 1
          /\ successful' = successful
          /\ sportsbook_odds' = sportsbook_odds
          /\ pc' = "run"]_vars

\* the query for the first of two records was sent and answered with an
\* empty list of games; the record is counted as failed and the loop goes on
C15_Witness ==
    /\ prog \in OddsPrograms
    /\ lookup.state = "returned"
    /\ lookup.out.request # NoDict
    /\ lookup.out.resp.kind = "games"
    /\ lookup.out.resp.data = << >>
    /\ lookup.out.ret = NoDict
    /\ processed = 1
    /\ Len(closing_lines) = 2
    /\ failed = 1
    /\ successful = 0
    /\ pc = "run"

(***************************************************************************)
(* get_NBA_prices.py: collect_closing_lines_for_all_games, the loop over   *)
(* the markets of the input file.  series_markets is the list of the       *)
(* markets in the order the two nested for loops visit them, each with the *)
(* ticker of its series.                                                   *)
(***************************************************************************)
MaxMarkets == 3

\* markets of every kind: finalized and complete, not finalized, without
\* ticker, without expiration time, with an expiration that is no time
MarketCatalog ==
    {[series_ticker |-> "KXNBAGAME", ticker |-> ExampleTicker,
      expected_expiration_time |-> ExampleExpiration,
      status |-> "finalized", subtitle |-> Absent],
     [series_ticker |-> "KXNBAGAME", ticker |-> ExampleTicker,
      expected_expiration_time |-> ExampleExpiration,
      status |-> "active", subtitle |-> Absent],
     [series_ticker |-> "KXNBAGAME", ticker |-> Absent,
      expected_expiration_time |-> ExampleExpiration,
      status |-> "finalized", subtitle |-> Absent],
     [series_ticker |-> "KXNBAGAME", ticker |-> ExampleTicker,
      expected_expiration_time |-> Absent,
      status |-> "finalized", subtitle |-> Absent],
     [series_ticker |-> "KXNBAGAME", ticker |-> ExampleTicker,
      expected_expiration_time |-> NotATime,
      status |-> "finalized",
      subtitle |-> TeamName(SEA) \o AtSep \o TeamName(ARI)]}

\* what the provider may answer in the loop: as for a single call, with at
\* most one sample
LoopCandleResponses(target_ts) ==
    {resp \in CandleResponses(target_ts) :
        resp.kind = "ok" => Len(resp.candlesticks) <= 1}

\* market.get('subtitle'): None when the market has none
GetOrNone(x) == IF x = Absent THEN None ELSE x

InitClosing ==
    /\ prog = "closing"
    /\ pc = "run"
    /\ series_markets \in SeqsUpTo(MarketCatalog, MaxMarkets)
    /\ skipped = 0
    /\ closing_lines = << >>
    /\ processed = 0
    /\ successful = 0
    /\ failed = 0
    /\ price_call = Idle
    /\ price_data = NoDict
    /\ output_data = NoDict
    /\ all_markets = << >>
    /\ cursor = None
    /\ page = 1
    /\ requests = << >>
    /\ responses = << >>
    /\ sportsbook_odds = << >>
    /\ resolved = Idle
    /\ lookup = Idle
    /\ MatchIdle /\ LiveIdle /\ CallIdle /\ SeriesIdle /\ MasterIdle

\* A mutant of SkipMarket: a market that is not finalized is not counted.
SkipMarketUncounted(market) ==
    UNCHANGED <<pc, skipped, successful, failed, closing_lines, price_call,
                price_data>>

\* A mutant of SkipMarket: a market that is not finalized is counted as
\* failed.
SkipMarketAsFailed(market) ==
    /\ failed' = failed + 1
    /\ UNCHANGED <<pc, skipped, successful, closing_lines, price_call,
                   price_data>>

\* status != 'finalized': the market is skipped
SkipMarket(market) ==
    /\ skipped' = skipped + 1
    /\ UNCHANGED <<pc, successful, failed, closing_lines, price_call,
                   price_data>>

\* the ticker or the expiration time is missing: the market has failed
FailMarket(market) ==
    /\ failed' = failed + 1
    /\ UNCHANGED <<pc, skipped, successful, closing_lines, price_call,
                   price_data>>

\* the end of the loop body, from the return of get_price_before_game_start
CollectPrice(market, args, out) ==
    /\ price_call' = [state |-> "returned", args |-> args, out |-> out]
    /\ price_data' = out.ret
    /\ UNCHANGED skipped
    /\ IF out.raised
       THEN /\ pc' = "raised"
            /\ UNCHANGED <<successful, failed, closing_lines>>
       ELSE IF out.ret # NoDict
       THEN /\ closing_lines' =
                  Append(closing_lines,
                         [price_data |-> out.ret,
                          subtitle |-> GetOrNone(market.subtitle)])
            /\ successful' = successful + 1
            /\ UNCHANGED <<pc, failed>>
       ELSE /\ failed' = failed + 1
            /\ UNCHANGED <<pc, successful, closing_lines>>

\* the call of get_price_before_game_start with minutes_before=5
CallPrice(market, args) ==
    \E resp \in LoopCandleResponses(TargetOf(args)) :
        CollectPrice(market, args,
                     GetPriceBeforeGameStart(args.series_ticker,
                                             args.market_ticker,
                                             args.expected_expiration_time,
                                             args.minutes_before, resp))

\* the loop body for one market
MarketBody(market) ==
    IF market.status # "finalized"
    THEN SkipMarket(market)
    ELSE IF ~NonEmpty(market.ticker) \/ ~NonEmpty(market.expected_expiration_time)
    THEN FailMarket(market)
    ELSE CallPrice(market,
                   [series_ticker |-> market.series_ticker,
                    market_ticker |-> market.ticker,
                    expected_expiration_time |-> market.expected_expiration_time,
                    minutes_before |-> [given |-> TRUE, v |-> 5]])

\* One pass of the inner for loop.
ProcessMarket ==
    /\ prog = "closing"
    /\ pc = "run"
    /\ processed < Len(series_markets)
    /\ processed' = processed + 1
    /\ MarketBody(series_markets[processed + 1])
    /\ UNCHANGED <<prog, series_markets, output_data, sportsbook_odds,
                   resolved, lookup>>
    /\ UNCHANGED <<fetchVars, matchVars, liveVars, callVars, seriesVars, masterVars>>

\* The loops are over and the results are saved.
SaveClosingLines ==
    /\ prog = "closing"
    /\ pc = "run"
    /\ processed = Len(series_markets)
    /\ pc' = "done"
    /\ output_data' = [total_markets_processed |-> processed,
                       successful |-> successful,
                       failed |-> failed,
                       skipped |-> skipped,
                       closing_lines |-> closing_lines]
    /\ UNCHANGED <<prog, priceVars, oddsVars, loopVars>>
    /\ UNCHANGED <<fetchVars, matchVars, liveVars, callVars, seriesVars, masterVars>>

NextClosing == ProcessMarket \/ SaveClosingLines

SpecClosing == InitClosing /\ [][NextClosing]_vars

\* the two collect functions
InitCollect == InitClosing \/ InitOdds

NextCollect == NextClosing \/ NextOdds

SpecCollect == InitCollect /\ [][NextCollect]_vars

\* C16: every input item is counted exactly once.  When
\* collect_closing_lines_for_all_games finishes, total_markets_processed =
\* successful + failed + skipped = number of input markets and
\* closing_lines has exactly `successful` entries; when
\* collect_sportsbook_odds_for_games finishes, total_games_processed =
\* successful + failed = number of input records and sportsbook_odds has
\* exactly `successful` entries.
C16_CountedOnce ==
    /\ (prog = "closing" /\ pc = "done") =>
          /\ output_data.total_markets_processed = Len(series_markets)
          /\ output_data.total_markets_processed =
                output_data.successful + output_data.failed
                + output_data.skipped
          /\ Len(output_data.closing_lines) = output_data.successful
    /\ (prog \in OddsPrograms /\ pc = "done") =>
          /\ output_data.total_games_processed = Len(closing_lines)
          /\ output_data.total_games_processed =
                output_data.successful + output_data.failed
          /\ Len(output_data.sportsbook_odds) = output_data.successful

\* a file of three markets is done: one collected, one failed, one skipped
C16_Witness ==
    /\ prog = "closing"
    /\ pc = "done"
    /\ output_data.total_markets_processed = 3
    /\ output_data.successful = 1
    /\ output_data.failed = 1
    /\ output_data.skipped = 1
    /\ Len(output_data.closing_lines) = 1

\* a closing-line record was returned
RecordReturned == PriceCallMade /\ price_data # NoDict

\* C17: every closing-line record returned by get_price_before_game_start
\* has price_time_unix within 300 seconds of the target timestamp, whatever
\* samples the provider returns for the window query.
C17_WithinWindow ==
    RecordReturned =>
        AbsDiff(price_data.price_time_unix, price_call.out.target_ts) <= 300

\* the provider answers the window query with one sample 400 seconds before
\* the target, and the record returned is made from it
C17_Witness ==
    /\ RecordReturned
    /\ Len(price_call.out.resp.candlesticks) = 1
    /\ price_call.out.resp.candlesticks[1].end_period_ts =
          price_call.out.target_ts - 400
    /\ Retained(1)

(***************************************************************************)
(* collect_live_odds.py: LiveOddsCollector.run_scheduler.  Time is counted *)
(* in minutes from the midnight (UTC) before the scheduler starts.  A      *)
(* commence_time text is given by the minute it denotes and by whether it  *)
(* carries a zone designator ("Z" or an offset): fromisoformat makes an    *)
(* aware datetime of a text with one and a naive datetime of one without.  *)
(* What collect_job fetches and writes to its files is not modelled, only  *)
(* that it ran, and when.                                                  *)
(***************************************************************************)
MaxTime == 1500
MaxErrors == 2
MaxUpcoming == 2

\* timedelta(minutes=5)
CollectionLead == 5
\* time.sleep(600) and time.sleep(60)
PollSleep == 10
RetrySleep == 1
\* every().day
DayMinutes == 1440

\* the minute of the day the scheduler starts at
StartTimes == {0, 15}

\* the zones of the host: UTC and five hours behind it
LocalOffsets == {0, -300}

CommenceTime(minute, aware) == [given |-> TRUE, minute |-> minute, aware |-> aware]

\* the games the provider may list: one that starts soon, one that starts
\* two days later, both with a commence_time without zone; one with a zone
\* designator; one without commence_time
LiveGames ==
    {[id |-> 1, home_team |-> TeamName(SEA), away_team |-> TeamName(ARI),
      commence_time |-> CommenceTime(27, FALSE)],
     [id |-> 2, home_team |-> TeamName(WAS), away_team |-> TeamName(SEA),
      commence_time |-> CommenceTime(2 * DayMinutes + 100, FALSE)],
     [id |-> 3, home_team |-> TeamName(ARI), away_team |-> TeamName(WAS),
      commence_time |-> CommenceTime(60, TRUE)],
     [id |-> 4, home_team |-> TeamName(ARI), away_team |-> TeamName(SEA),
      commence_time |-> [given |-> FALSE]]}

\* the answers of get_nfl_odds
LiveResponses ==
    {[success |-> FALSE, data |-> << >>]}
    \cup [success : {TRUE}, data : SeqsUpTo(LiveGames, MaxUpcoming)]

\* the entry of the upcoming list made of a listed game
UpcomingGame(game) ==
    [id |-> game.id, home_team |-> game.home_team,
     away_team |-> game.away_team,
     commence_time |-> [minute |-> game.commence_time.minute,
                        aware |-> game.commence_time.aware]]

\* the for loop of get_upcoming_games from the i-th game on; utcnow is the
\* naive datetime.utcnow(), and comparing an aware commence_time with it
\* raises TypeError
RECURSIVE UpcomingFrom(_, _, _, _)
UpcomingFrom(games, i, utcnow, upcoming) ==
    IF i > Len(games)
    THEN [raised |-> FALSE, upcoming |-> upcoming]
    ELSE IF ~games[i].commence_time.given
    THEN UpcomingFrom(games, i + 1, utcnow, upcoming)
    ELSE IF games[i].commence_time.aware
    THEN [raised |-> TRUE, upcoming |-> << >>]
    ELSE IF games[i].commence_time.minute > utcnow
    THEN UpcomingFrom(games, i + 1, utcnow,
                      Append(upcoming, UpcomingGame(games[i])))
    ELSE UpcomingFrom(games, i + 1, utcnow, upcoming)

get_upcoming_games(result, utcnow) ==
    IF ~result.success
    THEN [raised |-> FALSE, upcoming |-> << >>]
    ELSE UpcomingFrom(result.data, 1, utcnow, << >>)

\* game_key: the two team names and the commence time
GameKey(game) ==
    [home_team |-> game.home_team, away_team |-> game.away_team,
     commence_time |-> game.commence_time.minute]

\* the minute of the day of a time: strftime('%H:%M')
TimeOfDay(t) == t % DayMinutes

\* The next run of a job of every().day.at(at), computed at the local time
\* local: today at that time of day if it is still ahead, tomorrow if not.
NextRun(at, local) ==
    IF at > TimeOfDay(local)
    THEN local - TimeOfDay(local) + at
    ELSE local - TimeOfDay(local) + at + DayMinutes

\* the job registered for a game
JobFor(game, local) ==
    [tag |-> GameKey(game),
     at |-> TimeOfDay(game.commence_time.minute - CollectionLead),
     next_run |-> NextRun(TimeOfDay(game.commence_time.minute - CollectionLead),
                          local)]

\* A mutant of schedule_collection_for_game: the key is not looked up in
\* collected_games.
ScheduleUnchecked(game, utcnow, local, st) ==
    IF game.commence_time.minute - CollectionLead <= utcnow
    THEN st
    ELSE [collected_games |-> st.collected_games \cup {GameKey(game)},
          jobs |-> Append(st.jobs, JobFor(game, local))]

\* schedule_collection_for_game; st holds collected_games and the jobs of
\* the schedule module
schedule_collection_for_game(game, utcnow, local, st) ==
    IF GameKey(game) \in st.collected_games
    THEN st
    ELSE IF game.commence_time.minute - CollectionLead <= utcnow
    THEN st
    ELSE [collected_games |-> st.collected_games \cup {GameKey(game)},
          jobs |-> Append(st.jobs, JobFor(game, local))]

\* for game in upcoming_games: self.schedule_collection_for_game(game)
RECURSIVE ScheduleFrom(_, _, _, _, _)
ScheduleFrom(upcoming, i, utcnow, local, st) ==
    IF i > Len(upcoming)
    THEN st
    ELSE ScheduleFrom(upcoming, i + 1, utcnow, local,
                      schedule_collection_for_game(upcoming[i], utcnow,
                                                   local, st))

\* job.should_run
ShouldRun(job, local) == local >= job.next_run

\* a job that ran is scheduled for its next run
Rescheduled(job, local) == [job EXCEPT !.next_run = NextRun(job.at, local)]

\* schedule.run_pending() on the jobs jb: every job that is due runs and is
\* scheduled again; collect_job notes its key in collected_games
JobsAfterRun(jb, local) ==
    [i \in 1..Len(jb) |->
        IF ShouldRun(jb[i], local) THEN Rescheduled(jb[i], local) ELSE jb[i]]

RunsOf(jb, utcnow, local) ==
    {[key |-> jb[i].tag, time |-> utcnow] :
        i \in {j \in 1..Len(jb) : ShouldRun(jb[j], local)}}

InitLive ==
    /\ prog = "live"
    /\ pc = "run"
    /\ now \in StartTimes
    /\ local_offset \in LocalOffsets
    /\ collected_games = {}
    /\ jobs = << >>
    /\ executions = {}
    /\ errors = 0
    /\ all_markets = << >>
    /\ cursor = None
    /\ page = 1
    /\ requests = << >>
    /\ responses = << >>
    /\ price_call = Idle
    /\ price_data = NoDict
    /\ closing_lines = << >>
    /\ processed = 0
    /\ successful = 0
    /\ failed = 0
    /\ sportsbook_odds = << >>
    /\ resolved = Idle
    /\ lookup = Idle
    /\ output_data = NoDict
    /\ LoopIdle /\ MatchIdle /\ CallIdle /\ SeriesIdle /\ MasterIdle

\* the rest of a cycle in which get_upcoming_games returned: the games are
\* scheduled, the pending jobs run, and the loop sleeps ten minutes
ScheduleAndRun(st) ==
    /\ jobs' = JobsAfterRun(st.jobs, now + local_offset)
    /\ executions' = executions \cup RunsOf(st.jobs, now, now + local_offset)
    /\ collected_games' =
          st.collected_games
          \cup {e.key : e \in RunsOf(st.jobs, now, now + local_offset)}
    /\ now' = now + PollSleep
    /\ UNCHANGED errors

\* the cycle ends in `except Exception`: the loop sleeps one minute
CycleFailed ==
    /\ errors < MaxErrors
    /\ errors' = errors + 1
    /\ now' = now + RetrySleep
    /\ UNCHANGED <<collected_games, jobs, executions>>

CycleWith(up) ==
    IF up.raised
    THEN CycleFailed
    ELSE ScheduleAndRun(ScheduleFrom(up.upcoming, 1, now, now + local_offset,
                                     [collected_games |-> collected_games,
                                      jobs |-> jobs]))

\* One pass of the while loop of run_scheduler.
PollCycle ==
    /\ prog = "live"
    /\ pc = "run"
    /\ now < MaxTime
    /\ \E result \in LiveResponses : CycleWith(get_upcoming_games(result, now))
    /\ UNCHANGED <<prog, pc, local_offset, output_data>>
    /\ UNCHANGED <<fetchVars, priceVars, oddsVars, loopVars, matchVars, callVars, seriesVars, masterVars>>

\* KeyboardInterrupt: the loop is left.
Interrupt ==
    /\ prog \in {"live", "watch"}
    /\ pc = "run"
    /\ pc' = "done"
    /\ UNCHANGED <<prog, output_data, liveVars>>
    /\ UNCHANGED <<fetchVars, priceVars, oddsVars, loopVars, matchVars, callVars, seriesVars, masterVars>>

NextLive == PollCycle \/ Interrupt

SpecLive == InitLive /\ [][NextLive]_vars

\* the key of the game that starts at 00:27 of the first day
SoonKey ==
    [home_team |-> TeamName(SEA), away_team |-> TeamName(ARI),
     commence_time |-> 27]

\* the run e of a collection job is on time: within five minutes of
\* commence_time - 5 minutes, and before commence_time
OnTime(e) ==
    /\ e.time >= e.key.commence_time - CollectionLead - 5
    /\ e.time <= e.key.commence_time - CollectionLead + 5
    /\ e.time < e.key.commence_time

\* C18: in the continuous scheduler, whenever the collection job of a game
\* executes, the current time is at commence_time - 5 minutes within the
\* 5-minute tolerance, and strictly earlier than the game's commence_time.
C18_ExecutesOnTime ==
    prog = "live" => \A e \in executions : OnTime(e)

\* the scheduler starts at 00:00 on a host in UTC; the job of the game that
\* starts at 00:27 runs in the cycle of 00:30
C18_Witness ==
    /\ prog = "live"
    /\ local_offset = 0
    /\ errors = 0
    /\ [key |-> SoonKey, time |-> 30] \in executions
    /\ now = 40

\* the jobs registered in a step
Registered(before, after) ==
    {after[i].tag : i \in (Len(before) + 1)..Len(after)}

\* C19: at most one collection job is registered for each game key:
\* schedule_collection_for_game registers no job when the key is already in
\* collected_games, and adds the key to collected_games whenever it
\* registers a job.
C19_OneJobPerKey ==
    /\ [](prog = "live" =>
            /\ \A i, j \in 1..Len(jobs) : jobs[i].tag = jobs[j].tag => i = j
            /\ \A i \in 1..Len(jobs) : jobs[i].tag \in collected_games)
    /\ [][prog = "live" =>
            /\ Registered(jobs, jobs') \cap collected_games = {}
            /\ Registered(jobs, jobs') \subseteq collected_games']_vars

\* two games have their jobs, one of them has run, and the scheduler has
\* gone through the cycles of two hours since
C19_Witness ==
    /\ prog = "live"
    /\ Len(jobs) = 2
    /\ Cardinality(collected_games) = 2
    /\ \E e \in executions : e.key = SoonKey
    /\ now >= 120

\* C20: the timer registered for a game is one-shot: the game's collection
\* job executes at most once over the whole run of the scheduler.
C20_OneShot ==
    prog = "live" =>
        \A e1, e2 \in executions : e1.key = e2.key => e1.time = e2.time

\* the job of the game that starts at 00:27 of the first day runs at 00:30
\* of the first day and again at 00:30 of the second
C20_Witness ==
    /\ prog = "live"
    /\ local_offset = 0
    /\ [key |-> SoonKey, time |-> 30] \in executions
    /\ [key |-> SoonKey, time |-> DayMinutes + 30] \in executions

(***************************************************************************)
(* collect_live_odds.py: one call of get_upcoming_games, with the answer   *)
(* of the provider and the time of the call as its inputs.                 *)
(***************************************************************************)
\* the times of a call: before every listed game, between them, after the
\* first two
CallTimes == {0, 27, 30, 100}

InitUpcoming ==
    /\ prog = "upcoming"
    /\ pc = "run"
    /\ \E result \in LiveResponses, utcnow \in CallTimes :
          upcoming_call = [state |-> "called",
                           args |-> [result |-> result, utcnow |-> utcnow]]
    /\ all_markets = << >>
    /\ cursor = None
    /\ page = 1
    /\ requests = << >>
    /\ responses = << >>
    /\ price_call = Idle
    /\ price_data = NoDict
    /\ closing_lines = << >>
    /\ processed = 0
    /\ successful = 0
    /\ failed = 0
    /\ sportsbook_odds = << >>
    /\ resolved = Idle
    /\ lookup = Idle
    /\ output_data = NoDict
    /\ LoopIdle /\ MatchIdle /\ LiveIdle /\ SeriesIdle /\ MasterIdle

\* The call returns or raises.
GetUpcoming ==
    /\ prog = "upcoming"
    /\ pc = "run"
    /\ upcoming_call.state = "called"
    /\ upcoming_call' =
          [state |-> "returned", args |-> upcoming_call.args,
           out |-> get_upcoming_games(upcoming_call.args.result,
                                      upcoming_call.args.utcnow)]
    /\ pc' = IF get_upcoming_games(upcoming_call.args.result,
                                   upcoming_call.args.utcnow).raised
             THEN "raised" ELSE "done"
    /\ UNCHANGED <<prog, fetchVars, priceVars, oddsVars, output_data>>
    /\ UNCHANGED <<loopVars, matchVars, liveVars, seriesVars, masterVars>>

NextUpcoming == GetUpcoming

SpecUpcoming == InitUpcoming /\ [][NextUpcoming]_vars

\* the call of get_upcoming_games is over
UpcomingOver == prog = "upcoming" /\ upcoming_call.state = "returned"

\* the listed game has a commence_time later than the time t
StartsAfter(game, t) ==
    game.commence_time.given /\ game.commence_time.minute > t

\* the listed games that start after t, in list order
NotYetStarted(games, t) ==
    LET f[i \in 0..Len(games)] ==
            IF i = 0 THEN << >>
            ELSE IF StartsAfter(games[i], t)
                 THEN Append(f[i - 1], UpcomingGame(games[i]))
                 ELSE f[i - 1]
    IN  f[Len(games)]

\* C21: for a successful provider response, get_upcoming_games returns
\* exactly the listed games that carry a commence_time strictly later than
\* the current UTC time, in list order; for a failed provider request it
\* returns an empty list.
C21_UpcomingGames ==
    UpcomingOver =>
        /\ ~upcoming_call.out.raised
        /\ upcoming_call.out.upcoming =
              IF upcoming_call.args.result.success
              THEN NotYetStarted(upcoming_call.args.result.data,
                                 upcoming_call.args.utcnow)
              ELSE << >>

\* the provider lists one game, whose commence_time carries a zone
\* designator and is later than the time of the call
C21_Witness ==
    /\ UpcomingOver
    /\ upcoming_call.args.result.success
    /\ Len(upcoming_call.args.result.data) = 1
    /\ upcoming_call.args.result.data[1].commence_time.given
    /\ upcoming_call.args.result.data[1].commence_time.aware
    /\ upcoming_call.args.utcnow = 0
    /\ upcoming_call.out.raised

(***************************************************************************)
(* get_NBA_markets.py: fetch_nba_series_markets, categorize_markets_by_    *)
(* status and main, run twice on the same input file with the provider     *)
(* giving the same pages.  A dict is the sequence of its items in          *)
(* insertion order.                                                        *)
(***************************************************************************)
MaxSeries == 2

\* d[k] = v
DictSet(d, k, v) ==
    IF \E i \in 1..Len(d) : d[i].key = k
    THEN [i \in 1..Len(d) |->
             IF d[i].key = k THEN [key |-> k, value |-> v] ELSE d[i]]
    ELSE Append(d, [key |-> k, value |-> v])

\* d.get(k, 0)
CountOf(d, k) ==
    IF \E i \in 1..Len(d) : d[i].key = k
    THEN d[CHOOSE i \in 1..Len(d) : d[i].key = k].value
    ELSE 0

\* the series of the input file: two series, and one listed without title
SeriesCatalog ==
    [ticker : SeriesTickers, has_title : {TRUE}]
    \cup {[ticker |-> "KXNBAGAME", has_title |-> FALSE]}

\* market.get('status', 'unknown'): the record of market m1 carries the
\* status 'finalized', the record of market m2 carries none
StatusOf(m) == IF m = "m1" THEN "finalized" ELSE "unknown"

\* the pages the provider gives for one series: a failure, an empty page,
\* a page of one market, a page of two, and two pages of one market each
SeriesPages ==
    {<<[kind |-> "error"]>>,
     <<[kind |-> "ok", markets |-> << >>, cursor |-> Absent]>>,
     <<[kind |-> "ok", markets |-> <<"m1">>, cursor |-> Absent]>>,
     <<[kind |-> "ok", markets |-> <<"m1", "m2">>, cursor |-> << >>]>>,
     <<[kind |-> "ok", markets |-> <<"m2">>, cursor |-> <<"c", "1">>],
       [kind |-> "ok", markets |-> <<"m1">>, cursor |-> Absent]>>}

\* get_all_markets_for_series on the pages given, from the locals am, cur, pg
RECURSIVE FetchFrom(_, _, _, _)
FetchNext(pages, st) ==
    IF st.pc = "done"
    THEN st.all_markets
    ELSE FetchFrom(pages, st.all_markets, st.cursor, st.page)

FetchFrom(pages, am, cur, pg) ==
    IF pages = << >>
    THEN am
    ELSE FetchNext(Tail(pages), PageStep(am, cur, pg, Head(pages)))

get_all_markets_for_series(pages) == FetchFrom(pages, << >>, None, 1)

\* the statuses of the markets ms counted into the dict d
RECURSIVE CountStatuses(_, _)
CountStatuses(ms, d) ==
    IF ms = << >>
    THEN d
    ELSE CountStatuses(Tail(ms),
                       DictSet(d, StatusOf(Head(ms)),
                               CountOf(d, StatusOf(Head(ms))) + 1))

\* the by_series part of the statistics
BySeries(asm) ==
    [i \in 1..Len(asm) |->
        [key |-> asm[i].key,
         value |-> CountStatuses(asm[i].value.markets, << >>)]]

\* the overall part of the statistics, from the i-th series on
RECURSIVE OverallFrom(_, _, _)
OverallFrom(asm, i, d) ==
    IF i > Len(asm)
    THEN d
    ELSE OverallFrom(asm, i + 1, CountStatuses(asm[i].value.markets, d))

categorize_markets_by_status(asm) ==
    [by_series |-> BySeries(asm), overall |-> OverallFrom(asm, 1, << >>)]

InitSeries ==
    /\ prog = "series"
    /\ pc = "run"
    /\ nba_series \in SeqsUpTo(SeriesCatalog, MaxSeries)
    /\ series_answers = << >>
    /\ all_series_markets = << >>
    /\ total_markets = 0
    /\ run = 1
    /\ first_output = NoDict
    /\ output_data = NoDict
    /\ processed = 0
    /\ all_markets = << >>
    /\ cursor = None
    /\ page = 1
    /\ requests = << >>
    /\ responses = << >>
    /\ price_call = Idle
    /\ price_data = NoDict
    /\ closing_lines = << >>
    /\ successful = 0
    /\ failed = 0
    /\ sportsbook_odds = << >>
    /\ resolved = Idle
    /\ lookup = Idle
    /\ LoopIdle /\ MatchIdle /\ LiveIdle /\ CallIdle /\ MasterIdle

\* all_series_markets[ticker] = {...}
StoreSeries(asm, series, markets) ==
    DictSet(asm, series.ticker,
            [series_info |-> series,
             total_markets |-> Len(markets),
             markets |-> markets])

\* A mutant of LocalsAtStart: the dict and the total are kept from one call
\* of fetch_nba_series_markets to the next.
LocalsKept(asm, total) == [all_series_markets |-> asm, total_markets |-> total]

\* all_series_markets = {} and total_markets = 0 at the start of a call,
\* whatever they were at the end of the call before
LocalsAtStart(asm, total) == [all_series_markets |-> << >>, total_markets |-> 0]

\* the pass of the for loop for the series, with the markets fetched
SeriesFetched(series, markets) ==
    /\ all_series_markets' = StoreSeries(all_series_markets, series, markets)
    /\ total_markets' = total_markets + Len(markets)
    /\ UNCHANGED pc

\* series['title'] of a series without title: KeyError, which main catches
SeriesRaised ==
    /\ pc' = "raised"
    /\ UNCHANGED <<all_series_markets, total_markets>>

\* One pass of the for loop of fetch_nba_series_markets.  The first run
\* notes the pages the provider gives; the second run is given the same.
ProcessSeries ==
    /\ prog = "series"
    /\ pc = "run"
    /\ processed < Len(nba_series)
    /\ processed' = processed + 1
    /\ IF ~nba_series[processed + 1].has_title
       THEN SeriesRaised /\ UNCHANGED series_answers
       ELSE \E pages \in (IF run = 1 THEN SeriesPages
                          ELSE {series_answers[processed + 1]}) :
               /\ series_answers' =
                     IF run = 1 THEN Append(series_answers, pages)
                     ELSE series_answers
               /\ SeriesFetched(nba_series[processed + 1],
                                get_all_markets_for_series(pages))
    /\ UNCHANGED <<prog, nba_series, run, first_output, output_data>>
    /\ UNCHANGED <<fetchVars, priceVars, closing_lines, successful, failed,
                   sportsbook_odds, resolved, lookup>>
    /\ UNCHANGED <<loopVars, matchVars, liveVars, callVars, masterVars>>

\* the envelope main writes; fetch_date is the run that wrote it
Envelope(asm, total, date) ==
    [fetch_date |-> date,
     total_series |-> Len(asm),
     total_markets |-> total,
     statistics |-> categorize_markets_by_status(asm),
     series_markets |-> asm]

\* The loop is over: main writes the envelope.  After the first run the
\* fetcher is started again.
SaveMarkets ==
    /\ prog = "series"
    /\ pc = "run"
    /\ processed = Len(nba_series)
    /\ output_data' = Envelope(all_series_markets, total_markets, run)
    /\ IF run = 1
       THEN /\ first_output' = Envelope(all_series_markets, total_markets, run)
            /\ run' = 2
            /\ processed' = 0
            /\ all_series_markets' =
                  LocalsAtStart(all_series_markets,
                                total_markets).all_series_markets
            /\ total_markets' =
                  LocalsAtStart(all_series_markets, total_markets).total_markets
            /\ UNCHANGED pc
       ELSE /\ pc' = "done"
            /\ UNCHANGED <<first_output, run, processed, all_series_markets,
                           total_markets>>
    /\ UNCHANGED <<prog, nba_series, series_answers>>
    /\ UNCHANGED <<fetchVars, priceVars, closing_lines, successful, failed,
                   sportsbook_odds, resolved, lookup>>
    /\ UNCHANGED <<loopVars, matchVars, liveVars, callVars, masterVars>>

NextSeries == ProcessSeries \/ SaveMarkets

SpecSeries == InitSeries /\ [][NextSeries]_vars

\* both runs of the fetcher have written their envelopes
BothRunsDone == prog = "series" /\ pc = "done"

RECURSIVE SumStored(_)
SumStored(asm) ==
    IF asm = << >> THEN 0
    ELSE Head(asm).value.total_markets + SumStored(Tail(asm))

\* the sum of the counts of a status dict
RECURSIVE SumCounts(_)
SumCounts(d) == IF d = << >> THEN 0 ELSE Head(d).value + SumCounts(Tail(d))

\* an envelope of the fetcher has been written
EnvelopeWritten == prog = "series" /\ output_data # NoDict

\* C27: in the envelope written by the NBA series-market fetch,
\* total_markets equals the sum of the total_markets fields of the entries
\* stored in series_markets, which equals the sum of the counts in
\* statistics.overall, and total_series equals the number of series listed
\* in the input file, for every input list of series (including lists that
\* repeat a series ticker).
C27_TotalsAgree ==
    EnvelopeWritten =>
        /\ output_data.total_markets = SumStored(output_data.series_markets)
        /\ SumStored(output_data.series_markets) =
              SumCounts(output_data.statistics.overall)
        /\ output_data.total_series = Len(nba_series)

\* the input file lists the same series twice, the provider gives one
\* market for it each time: total_markets is 2, one entry of one market is
\* stored
C27_Witness ==
    /\ EnvelopeWritten
    /\ Len(nba_series) = 2
    /\ nba_series[1].ticker = nba_series[2].ticker
    /\ output_data.total_markets = 2
    /\ output_data.total_series = 1
    /\ SumStored(output_data.series_markets) = 1

\* the market the next pass of the loop is for
NextMarket == series_markets[processed + 1]

\* a pass of the loop of collect_closing_lines_for_all_games
MarketStep == prog = "closing" /\ processed' = processed + 1

\* the market is finalized and has a ticker and an expiration time
Eligible(market) ==
    /\ market.status = "finalized"
    /\ NonEmpty(market.ticker)
    /\ NonEmpty(market.expected_expiration_time)

\* C23: collect_closing_lines_for_all_games issues a candlestick request
\* only for markets whose status is 'finalized' and that have both a ticker
\* and an expected_expiration_time; every market with any other status is
\* counted as skipped (never as failed), and a finalized market missing
\* ticker or expiration is counted as failed without a request.
C23_RequestsOnlyForFinalized ==
    [][MarketStep =>
          /\ ~Eligible(NextMarket) => price_call' = price_call
          /\ NextMarket.status # "finalized" =>
                /\ skipped' = skipped + 1
                /\ failed' = failed
                /\ successful' = successful
          /\ (NextMarket.status = "finalized" /\ ~Eligible(NextMarket)) =>
                /\ failed' = failed + 1
                /\ skipped' = skipped
                /\ successful' = successful]_vars

\* an active market and a finalized market without ticker have been passed:
\* one skipped, one failed, and no call for a price so far
C23_Witness ==
    /\ prog = "closing"
    /\ processed = 2
    /\ series_markets[1].status = "active"
    /\ series_markets[2].status = "finalized"
    /\ ~NonEmpty(series_markets[2].ticker)
    /\ skipped = 1
    /\ failed = 1
    /\ price_call = Idle

\* the other copy of the loop
OtherCopy(p) == IF p = "odds" THEN "odds_test" ELSE "odds"

\* what the lookup of the other copy returns for the arguments and the
\* provider answer of the lookup just made
OtherLookup ==
    get_sportsbook_odds_before_game_start(
        HistoricalOddsKeywords(OtherCopy(prog)),
        lookup.args.home_team, lookup.args.away_team,
        lookup.args.game_start_time, lookup.args.minutes_before,
        lookup.out.resp)

\* C24: test_collect_sportsbook_odds is a faithful truncated version of
\* collect_sportsbook_odds_for_games: for the same records and the same
\* provider responses both produce the same sportsbook_odds payload and the
\* same counts.  The two loops differ in nothing but the lookup they call,
\* so this is: for every record that reaches the lookup, the lookups of the
\* two copies return the same value for the same provider answer, and so
\* append the same entry and move the same counter.
C24_SameAsTestCopy ==
    (prog \in OddsPrograms /\ lookup.state = "returned") =>
        /\ lookup.out.ret = OtherLookup.ret
        /\ lookup.out.raised = OtherLookup.raised

\* collect_sportsbook_odds_for_games has counted its one record as failed,
\* for a provider answer the test copy makes a snapshot of
C24_Witness ==
    /\ prog = "odds"
    /\ pc = "done"
    /\ lookup.state = "returned"
    /\ Len(closing_lines) = 1
    /\ output_data.failed = 1
    /\ output_data.successful = 0
    /\ lookup.out.ret = NoDict
    /\ OtherLookup.ret # NoDict

\* C25: the candlestick request for a market is addressed to the series
\* under which that market is listed: the series segment of the request
\* path equals the series_ticker passed to get_price_before_game_start.
C25_RequestToOwnSeries ==
    PriceCallMade =>
        price_call.out.request.series = price_call.args.series_ticker

\* the function was called for a market of the series KXNBASERIES and its
\* request went to the series KXNBAGAME
C25_Witness ==
    /\ PriceCallMade
    /\ price_call.args.series_ticker = "KXNBASERIES"
    /\ price_call.out.request.series = "KXNBAGAME"

(***************************************************************************)
(* run_scheduler with the call of get_upcoming_games of the last cycle     *)
(* kept in upcoming_call, and with the loop running as long as it is not   *)
(* interrupted.                                                            *)
(***************************************************************************)
MaxWatchTime == 400

InitWatch ==
    /\ prog = "watch"
    /\ pc = "run"
    /\ now \in StartTimes
    /\ local_offset \in LocalOffsets
    /\ collected_games = {}
    /\ jobs = << >>
    /\ executions = {}
    /\ errors = 0
    /\ all_markets = << >>
    /\ cursor = None
    /\ page = 1
    /\ requests = << >>
    /\ responses = << >>
    /\ price_call = Idle
    /\ price_data = NoDict
    /\ closing_lines = << >>
    /\ processed = 0
    /\ successful = 0
    /\ failed = 0
    /\ sportsbook_odds = << >>
    /\ resolved = Idle
    /\ lookup = Idle
    /\ output_data = NoDict
    /\ LoopIdle /\ MatchIdle /\ CallIdle /\ SeriesIdle /\ MasterIdle

\* One pass of the while loop of run_scheduler.
WatchCycle ==
    /\ prog = "watch"
    /\ pc = "run"
    /\ now < MaxWatchTime
    /\ \E result \in LiveResponses :
          /\ CycleWith(get_upcoming_games(result, now))
          /\ upcoming_call' =
                [state |-> "returned",
                 args |-> [result |-> result, utcnow |-> now],
                 out |-> get_upcoming_games(result, now)]
    /\ UNCHANGED <<prog, pc, local_offset, output_data>>
    /\ UNCHANGED <<fetchVars, priceVars, oddsVars, loopVars, matchVars,
                   seriesVars, masterVars>>

NextWatch == WatchCycle \/ Interrupt

\* the loop goes on as long as it is not interrupted
SpecWatch == InitWatch /\ [][NextWatch]_vars /\ WF_vars(WatchCycle)

\* a cycle of the scheduler is over
CycleOver == prog = "watch" /\ upcoming_call.state = "returned"

\* the cycle saw the game with its collection time still in the future
SeenInTime(game) ==
    /\ game.commence_time.given
    /\ game.commence_time.minute - CollectionLead > upcoming_call.args.utcnow

\* a job is registered for the key
HasJob(key) == \E i \in 1..Len(jobs) : jobs[i].tag = key

\* the key of a listed game
ListedKey(game) ==
    [home_team |-> game.home_team, away_team |-> game.away_team,
     commence_time |-> game.commence_time.minute]

\* C26: if a polling cycle of run_scheduler sees a game whose collection
\* time (commence_time - 5 minutes) is still in the future, a collection job
\* for that game is registered in that cycle, and provided the process
\* keeps running the job eventually executes.
C26_SeenGameCollected ==
    /\ [](CycleOver =>
            \A i \in 1..Len(upcoming_call.args.result.data) :
                SeenInTime(upcoming_call.args.result.data[i]) =>
                    HasJob(ListedKey(upcoming_call.args.result.data[i])))
    /\ (prog = "watch" /\ HasJob(SoonKey))
          ~> (pc = "done" \/ \E e \in executions : e.key = SoonKey)

\* the first cycle saw one game, which starts an hour later and whose
\* commence_time carries a zone designator; the cycle ended in the
\* exception handler and no job is registered
C26_Witness ==
    /\ CycleOver
    /\ upcoming_call.args.utcnow = 0
    /\ Len(upcoming_call.args.result.data) = 1
    /\ SeenInTime(upcoming_call.args.result.data[1])
    /\ upcoming_call.args.result.data[1].commence_time.aware
    /\ upcoming_call.out.raised
    /\ jobs = << >>
    /\ errors = 1

(***************************************************************************)
(* odds_client.py: calls of find_game_by_teams on lists in which a game    *)
(* may lack a team name.  game.get('home_team', '') of a game without      *)
(* home_team is the empty string, as is an empty name.                     *)
(***************************************************************************)
MaxMissingList == 1

ListedOrMissing == ListedNames \cup {<< >>}

\* the lists of at most n games whose names may be missing
GameListsMissing(n) ==
    UNION {{[i \in 1..k |-> [id |-> i, home_team |-> h[i], away_team |-> a[i]]] :
               h \in [1..k -> ListedOrMissing], a \in [1..k -> ListedOrMissing]} :
           k \in 0..n}

InitMatchMissing ==
    /\ prog = "match"
    /\ pc = "run"
    /\ \E odds_data \in GameListsMissing(MaxMissingList),
          team1 \in AskedNames, team2 \in AskedNames :
          match_call = [state |-> "called",
                        args |-> [odds_data |-> odds_data, team1 |-> team1,
                                  team2 |-> team2]]
    /\ all_markets = << >>
    /\ cursor = None
    /\ page = 1
    /\ requests = << >>
    /\ responses = << >>
    /\ price_call = Idle
    /\ price_data = Idle
    /\ closing_lines = << >>
    /\ processed = 0
    /\ successful = 0
    /\ failed = 0
    /\ sportsbook_odds = << >>
    /\ resolved = Idle
    /\ lookup = Idle
    /\ output_data = NoDict
    /\ LoopIdle /\ LiveIdle /\ CallIdle /\ SeriesIdle /\ MasterIdle

InitMatchAll == InitMatch \/ InitMatchMissing

SpecMatchAll == InitMatchAll /\ [][NextMatch]_vars

\* C28: find_game_by_teams is symmetric in its two team arguments: for
\* every game list and every pair of names, find_game_by_teams(games, a, b)
\* and find_game_by_teams(games, b, a) return the same game or both return
\* None.
C28_Symmetric ==
    MatchReturned =>
        match_call.out = find_game_by_teams(match_call.args.odds_data,
                                            match_call.args.team2,
                                            match_call.args.team1)

\* the call asked for the away team first and the home team second, and
\* found the second game of the list
C28_Witness ==
    /\ MatchReturned
    /\ Len(match_call.args.odds_data) = 2
    /\ match_call.args.team1 = TeamName(ARI)
    /\ match_call.args.team2 = UpperName
    /\ match_call.out # NoDict
    /\ match_call.out.id = 2
    /\ match_call.out.home_team = TeamName(SEA)
    /\ match_call.out.away_team = ShortName

\* C29: find_game_by_teams never returns a game record whose home_team or
\* away_team is missing or empty: such a record matches no non-empty
\* requested team pair.
C29_NoNamelessGame ==
    (/\ MatchReturned
     /\ match_call.args.team1 # << >>
     /\ match_call.args.team2 # << >>
     /\ match_call.out # NoDict) =>
        /\ match_call.out.home_team # << >>
        /\ match_call.out.away_team # << >>

\* the only game listed has no team names, and it is returned for the pair
\* Seattle Seahawks, Arizona Cardinals
C29_Witness ==
    /\ MatchReturned
    /\ Len(match_call.args.odds_data) = 1
    /\ match_call.args.odds_data[1].home_team = << >>
    /\ match_call.args.odds_data[1].away_team = << >>
    /\ match_call.args.team1 = TeamName(SEA)
    /\ match_call.args.team2 = TeamName(ARI)
    /\ match_call.out # NoDict
    /\ match_call.out.id = 1

(***************************************************************************)
(* collect_live_odds.py: the collection jobs of a run of the scheduler and *)
(* the master file they append to.  processed counts the jobs run,         *)
(* successful those whose odds were collected; the time written to         *)
(* last_updated is the number of the job.                                  *)
(***************************************************************************)
MaxCollections == 4

\* the games a job may be for: those of the provider's list that come
\* through get_upcoming_games
JobGames == {UpcomingGame(g) : g \in {x \in LiveGames :
                x.commence_time.given /\ ~x.commence_time.aware}}

\* what collect_odds_for_game returns for the game: the odds, or a failure
CollectedOdds(game) ==
    {[success |-> TRUE, game_id |-> game.id, home_team |-> game.home_team,
      away_team |-> game.away_team],
     [success |-> FALSE, game_id |-> game.id, home_team |-> game.home_team,
      away_team |-> game.away_team]}

\* master_data as loaded from the file, or as made new when there is none
LoadMaster(file) ==
    IF file.exists
    THEN [games |-> file.games, last_updated |-> file.last_updated,
          total_games |-> file.total_games]
    ELSE [games |-> << >>, last_updated |-> None, total_games |-> Absent]

\* master_data with the record appended, as written back to the file
WriteMaster(master_data, odds_data, time) ==
    [exists |-> TRUE,
     games |-> Append(master_data.games, odds_data),
     last_updated |-> time,
     total_games |-> Len(master_data.games) + 1]

\* A mutant of _append_to_master_file: the file is written anew at each
\* call.
AppendToNewFile(file, odds_data, time) ==
    WriteMaster(LoadMaster([exists |-> FALSE]), odds_data, time)

_append_to_master_file(file, odds_data, time) ==
    WriteMaster(LoadMaster(file), odds_data, time)

InitMaster ==
    /\ prog = "master"
    /\ pc = "run"
    /\ master_file = [exists |-> FALSE]
    /\ processed = 0
    /\ successful = 0
    /\ collected_games = {}
    /\ now = 0
    /\ jobs = << >>
    /\ executions = {}
    /\ errors = 0
    /\ local_offset = 0
    /\ all_markets = << >>
    /\ cursor = None
    /\ page = 1
    /\ requests = << >>
    /\ responses = << >>
    /\ price_call = Idle
    /\ price_data = NoDict
    /\ closing_lines = << >>
    /\ failed = 0
    /\ sportsbook_odds = << >>
    /\ resolved = Idle
    /\ lookup = Idle
    /\ output_data = NoDict
    /\ LoopIdle /\ MatchIdle /\ CallIdle /\ SeriesIdle

\* the body of collect_job once the odds have been asked for
JobWith(game, odds_data) ==
    /\ IF odds_data.success
       THEN /\ master_file' =
                  _append_to_master_file(master_file, odds_data, processed + 1)
            /\ successful' = successful + 1
       ELSE UNCHANGED <<master_file, successful>>
    /\ collected_games' = collected_games \cup {GameKey(game)}

\* One run of a collection job.
CollectJob ==
    /\ prog = "master"
    /\ pc = "run"
    /\ processed < MaxCollections
    /\ processed' = processed + 1
    /\ \E game \in JobGames : \E odds_data \in CollectedOdds(game) :
          JobWith(game, odds_data)
    /\ UNCHANGED <<prog, pc, output_data, now, jobs, executions, errors,
                   local_offset>>
    /\ UNCHANGED <<fetchVars, priceVars, closing_lines, failed,
                   sportsbook_odds, resolved, lookup>>
    /\ UNCHANGED <<loopVars, matchVars, callVars, seriesVars>>

NextMaster == CollectJob

SpecMaster == InitMaster /\ [][NextMaster]_vars

\* the games list of the master file, empty when there is no file
GamesOf(file) == IF file.exists THEN file.games ELSE << >>

\* C30: each call of _append_to_master_file appends exactly one game record
\* at the end of the master file's games list, leaves all earlier records
\* and their order unchanged, and leaves total_games equal to the length of
\* games; so after n successful collections starting from no master file,
\* total_games = n.
C30_AppendsOne ==
    /\ [][(prog = "master" /\ successful' = successful + 1) =>
             /\ master_file'.exists
             /\ Len(master_file'.games) = Len(GamesOf(master_file)) + 1
             /\ SubSeq(master_file'.games, 1, Len(GamesOf(master_file)))
                   = GamesOf(master_file)
             /\ master_file'.games[Len(master_file'.games)].success
             /\ master_file'.total_games = Len(master_file'.games)]_vars
    /\ []((prog = "master" /\ successful >= 1) =>
             master_file.exists /\ master_file.total_games = successful)
    /\ []((prog = "master" /\ successful = 0) => ~master_file.exists)

\* four jobs have run, one failed; the master file holds the three records
\* collected, in the order of their collection
C30_Witness ==
    /\ prog = "master"
    /\ processed = 4
    /\ successful = 3
    /\ master_file.exists
    /\ master_file.total_games = 3
    /\ master_file.games[1].game_id = 2
    /\ master_file.games[2].game_id = 1
    /\ master_file.games[3].game_id = 2
    /\ master_file.last_updated = 4

====
